---- MODULE Spec2Model ----
(***************************************************************************)
(* The reconciliation engine of external-dns (src/src/external_dns/cli.py):*)
(* ExternalDNSSyncer.sync_once and its helpers, run against a resolver     *)
(* (the DNS provider's rewrite list), a persisted state document and the   *)
(* proxy instances of the configuration; StateStore and the file it keeps;  *)
(* the watch loop of main with the shutdown event; retry_with_backoff.      *)
(***************************************************************************)
EXTENDS Integers, Sequences, FiniteSets, TLC

VARIABLES
    resolver,            \* the resolver's rewrite list: a sequence of <<domain, answer>>
    stateFile,           \* the persisted state document (StateStore)
    config,              \* instances, static_rewrites and exclude_patterns of the process
    startupCleanupDone,  \* ExternalDNSSyncer._startup_cleanup_done
    clock,               \* int(time.time()) of the last cycle, one tick per cycle
    restarts,            \* process restarts so far
    edits,               \* operator edits of the resolver so far
    outages,             \* cycles so far during which a resolver operation failed
    pre,                 \* resolver and state document as the last cycle found them
    inp,                 \* what the last cycle drew: poll results and resolver outages
    ops,                 \* the resolver mutations the last cycle issued, in order
    prev,                \* the cycle before the last one: its outages, the operations
                         \* that failed in it, whether the last cycle repeated it, and
                         \* the static rewrites ensured by the cycles before the last
    calm,                \* nothing has happened since the last cycle ended
    disk,                \* the files of StateStore: the state path and its .tmp sibling
    store,               \* the process using StateStore: where it is in save, what it loaded
    daemon,              \* main in watch mode: its position, the shutdown event, the
                         \* configuration files and their snapshot
    retry                \* one call of retry_with_backoff

engineVars == <<resolver, stateFile, config, startupCleanupDone, clock, restarts, edits,
                outages, pre, inp, ops, prev, calm>>

vars == <<resolver, stateFile, config, startupCleanupDone, clock, restarts, edits,
          outages, pre, inp, ops, prev, calm, disk, store, daemon, retry>>

-----------------------------------------------------------------------------
(* Bounds of the model *)

MaxSaves == 3
MaxCalls == 2
MaxRetries == 3
MaxConfigEdits == 2

MaxCycles == 2
MaxReloadCycles == 3
MaxDamagedCycles == 2
MaxLongCycles == 3
MaxRestarts == 1
MaxEdits == 1
MaxOutages == 1

-----------------------------------------------------------------------------
(* The universe the inputs are drawn from *)

Domains == {"d1", "d2"}
\* sorted(...) over hostnames
DomainOrder == <<"d1", "d2">>
Answers == {"a1", "a2", "a3"}
InstanceNames == {"i1", "i2"}
\* ProxyInstance.target_ip of each instance
TargetIp == [i \in InstanceNames |-> IF i = "i1" THEN "a1" ELSE "a2"]
Zones == {"internal", "external"}

Range(s) == {s[k] : k \in DOMAIN s}
Restrict(f, S) == [x \in S |-> f[x]]
Put(f, k, v) == [x \in DOMAIN f \cup {k} |-> IF x = k THEN v ELSE f[x]]
\* the members of S in sorted order
SortedSeq(S) == SelectSeq(DomainOrder, LAMBDA d : d \in S)

-----------------------------------------------------------------------------
(* StateStore and the managed_records bookkeeping *)

\* StateStore.load on an absent or unparsable file, after sync_once's setdefaults
EmptyState == [instances |-> <<>>, domains |-> <<>>, managed |-> <<>>]

\* as IsRecordManaged, but every record counts as created by the engine
IsRecordManagedAny(st, d, a) == TRUE

IsRecordManaged(st, d, a) ==
    d \in DOMAIN st.managed /\ a \in Range(st.managed[d])

\* as MarkRecordManaged, but nothing is recorded
MarkRecordManagedNot(st, d, a) == st

MarkRecordManaged(st, d, a) ==
    IF IsRecordManaged(st, d, a) THEN st
    ELSE [st EXCEPT !.managed =
            Put(@, d, IF d \in DOMAIN @ THEN Append(@[d], a) ELSE <<a>>)]

UnmarkRecordManaged(st, d, a) ==
    IF d \notin DOMAIN st.managed THEN st
    ELSE LET rest == SelectSeq(st.managed[d], LAMBDA x : x # a)
         IN  IF rest = <<>>
             THEN [st EXCEPT !.managed = Restrict(@, DOMAIN @ \ {d})]
             ELSE [st EXCEPT !.managed = Put(@, d, rest)]

\* state["domains"].pop(domain, None)
PopDomain(st, d) == [st EXCEPT !.domains = Restrict(@, DOMAIN @ \ {d})]

-----------------------------------------------------------------------------
(* The DNS provider.  A cycle frame c carries the state document c.st, the  *)
(* resolver c.res and the log c.ops of the mutations issued so far; down is *)
(* the set of resolver operations that fail in this cycle.                  *)

\* get_records returns [] when the request fails
GetRecords(res, down) == IF "list" \in down THEN <<>> ELSE res

\* the answers of domain d in a record list, in list order
AnswersOf(recs, d) ==
    LET mine == SelectSeq(recs, LAMBDA r : r[1] = d)
    IN  [k \in DOMAIN mine |-> mine[k][2]]

Has(res, d, a) == <<d, a>> \in Range(res)

Op(kind, d, a, b, step, c, ok) ==
    [op |-> kind, d |-> d, a |-> a, b |-> b, step |-> step,
     managed |-> d \in DOMAIN c.st.managed /\ a \in Range(c.st.managed[d]),
     ok |-> ok]

AddRecord(c, d, a, step, down) ==
    LET ok == "add" \notin down
    IN  [c EXCEPT !.res = IF ok /\ ~Has(@, d, a) THEN Append(@, <<d, a>>) ELSE @,
                  !.ops = Append(@, Op("add", d, a, a, step, c, ok))]

DeleteRecord(c, d, a, step, down) ==
    LET ok == "delete" \notin down
    IN  [c EXCEPT !.res = IF ok THEN SelectSeq(@, LAMBDA r : r # <<d, a>>) ELSE @,
                  !.ops = Append(@, Op("delete", d, a, a, step, c, ok))]

\* DNSProvider.update_record: delete, then add when the delete succeeded
UpdateRecord(c, d, old, new, step, down) ==
    LET delOk == "delete" \notin down
        addOk == "add" \notin down
        afterDel == IF delOk THEN SelectSeq(c.res, LAMBDA r : r # <<d, old>>) ELSE c.res
        afterAdd == IF delOk /\ addOk /\ ~Has(afterDel, d, new)
                    THEN Append(afterDel, <<d, new>>) ELSE afterDel
    IN  [c EXCEPT !.res = afterAdd,
                  !.ops = Append(@, Op("update", d, old, new, step, c, delOk /\ addOk))]

\* the loop below without its _is_record_managed test
RECURSIVE DeleteManagedUnchecked(_, _, _, _, _)
DeleteManagedUnchecked(c, d, answers, step, down) ==
    IF answers = <<>> THEN c
    ELSE DeleteManagedUnchecked(
             [DeleteRecord(c, d, Head(answers), step, down)
                 EXCEPT !.st = UnmarkRecordManaged(@, d, Head(answers))],
             d, Tail(answers), step, down)

\* "for answer in answers: if managed: delete_record, unmark" of the cleanup,
\* exclusion and orphan loops
RECURSIVE DeleteManaged(_, _, _, _, _)
DeleteManaged(c, d, answers, step, down) ==
    IF answers = <<>> THEN c
    ELSE LET a == Head(answers)
             c1 == IF IsRecordManaged(c.st, d, a)
                   THEN [DeleteRecord(c, d, a, step, down)
                            EXCEPT !.st = UnmarkRecordManaged(@, d, a)]
                   ELSE c
         IN  DeleteManaged(c1, d, Tail(answers), step, down)

-----------------------------------------------------------------------------
(* _cleanup_removed_instances: first cycle of a process only *)

RECURSIVE CleanupDomains(_, _, _, _, _)
CleanupDomains(c, ds, recs, cfg, down) ==
    IF ds = <<>> THEN c
    ELSE LET d == Head(ds)
             c1 == IF d \in DOMAIN cfg.static THEN c
                   ELSE [DeleteManaged(c, d, AnswersOf(recs, d), "cleanup", down)
                            EXCEPT !.st = PopDomain(@, d)]
         IN  CleanupDomains(c1, Tail(ds), recs, cfg, down)

CleanupRemovedInstances(c, cfg, down) ==
    LET removed == DOMAIN c.st.instances \ Range(cfg.instances)
    IN  IF removed = {} THEN c
        ELSE LET recs == GetRecords(c.res, down)
                 old == c.st.domains
                 stripped == [d \in DOMAIN old |->
                                 Restrict(old[d], DOMAIN old[d] \ removed)]
                 toCleanup == {d \in DOMAIN old :
                                 DOMAIN old[d] # {} /\ DOMAIN stripped[d] = {}}
                 c1 == [c EXCEPT !.st.domains = stripped]
                 c2 == CleanupDomains(c1, SortedSeq(toCleanup), recs, cfg, down)
             IN  [c2 EXCEPT !.st.instances = Restrict(@, DOMAIN @ \ removed)]

-----------------------------------------------------------------------------
(* _sync_static_rewrites *)

\* a static step that leaves every rewrite as it finds it
StaticOneIdle(c, d, answer, recs, down) == c

StaticOne(c, d, answer, recs, down) ==
    LET answers == AnswersOf(recs, d)
    IN  IF answers # <<>>
        THEN \* current_records is a dict: the last listed answer of d wins
             LET current == answers[Len(answers)]
             IN  IF current = answer
                 THEN [c EXCEPT !.st = MarkRecordManaged(@, d, answer)]
                 ELSE IF IsRecordManaged(c.st, d, current)
                 THEN [UpdateRecord(c, d, current, answer, "static", down)
                          EXCEPT !.st = MarkRecordManaged(
                                            UnmarkRecordManaged(@, d, current), d, answer)]
                 ELSE c
        ELSE [AddRecord(c, d, answer, "static", down)
                 EXCEPT !.st = MarkRecordManaged(@, d, answer)]

\* the static step marks (d, answer) managed: it adds it, adopts it or rotates
\* a managed record to it; it does not when another, unmanaged answer is listed
StaticMarks(c, d, answer, recs) ==
    LET answers == AnswersOf(recs, d)
    IN  \/ answers = <<>>
        \/ answers[Len(answers)] = answer
        \/ IsRecordManaged(c.st, d, answers[Len(answers)])

RECURSIVE StaticLoop(_, _, _, _, _)
StaticLoop(c, ds, cfg, recs, down) ==
    IF ds = <<>> THEN c
    ELSE StaticLoop(StaticOne(c, Head(ds), cfg.static[Head(ds)], recs, down),
                    Tail(ds), cfg, recs, down)

SyncStaticRewrites(c, cfg, down) ==
    IF DOMAIN cfg.static = {} THEN c
    ELSE StaticLoop(c, SortedSeq(DOMAIN cfg.static), cfg, GetRecords(c.res, down), down)

-----------------------------------------------------------------------------
(* sync_once: polling, pruning, the desired set *)

\* _is_domain_excluded: the patterns of the model are exact hostnames
IsDomainExcluded(d, patterns) == d \in patterns

\* as Seen, but routes of every zone are kept
SeenAnyZone(routes, cfg) ==
    {r[1] : r \in {x \in routes : ~IsDomainExcluded(x[1], cfg.exclude)}}

\* the hostnames of a successful poll that are kept
Seen(routes, cfg) ==
    {r[1] : r \in {x \in routes : ~IsDomainExcluded(x[1], cfg.exclude)
                                  /\ x[2] # "external"}}

\* as PollOne, but a failed poll forgets the time of the last success
PollOneForgetful(st, i, poll, cfg, now) ==
    IF poll.ok
    THEN LET seen == Seen(poll.routes, cfg)
             src(h) == IF h \in DOMAIN st.domains THEN st.domains[h] ELSE <<>>
         IN  [st EXCEPT
                !.domains = [h \in DOMAIN st.domains \cup seen |->
                               IF h \in seen THEN Put(src(h), i, TargetIp[i])
                               ELSE st.domains[h]],
                !.instances = Put(@, i, [last_success |-> now, last_error |-> ""])]
    ELSE [st EXCEPT
            !.instances = Put(@, i, [last_success |-> 0, last_error |-> "err"])]

PollOne(st, i, poll, cfg, now) ==
    IF poll.ok
    THEN LET seen == Seen(poll.routes, cfg)
             src(h) == IF h \in DOMAIN st.domains THEN st.domains[h] ELSE <<>>
         IN  [st EXCEPT
                !.domains = [h \in DOMAIN st.domains \cup seen |->
                               IF h \in seen THEN Put(src(h), i, TargetIp[i])
                               ELSE st.domains[h]],
                !.instances = Put(@, i, [last_success |-> now, last_error |-> ""])]
    ELSE [st EXCEPT
            !.instances = Put(@, i,
                [last_success |-> IF i \in DOMAIN @ THEN @[i].last_success ELSE 0,
                 last_error |-> "err"])]

RECURSIVE PollInstances(_, _, _, _, _)
PollInstances(st, is, polls, cfg, now) ==
    IF is = <<>> THEN st
    ELSE PollInstances(PollOne(st, Head(is), polls[Head(is)], cfg, now),
                       Tail(is), polls, cfg, now)

\* as Withdrawn, but a failed poll counts as a report of no route
WithdrawnUnconfirmed(i, d, polls, cfg) ==
    /\ i \in Range(cfg.instances)
    /\ d \notin Seen(polls[i].routes, cfg)

\* instance i was polled successfully and did not report d
Withdrawn(i, d, polls, cfg) ==
    /\ i \in Range(cfg.instances)
    /\ polls[i].ok
    /\ d \notin Seen(polls[i].routes, cfg)

PruneSources(st, polls, cfg) ==
    [st EXCEPT !.domains =
        [d \in DOMAIN @ |->
            Restrict(@[d], {i \in DOMAIN @[d] : ~Withdrawn(i, d, polls, cfg)})]]

\* as Orphaned, but no domain is ever found without sources
OrphanedNone(st) == {}

\* domains_to_delete_from_state
Orphaned(st) == {d \in DOMAIN st.domains : DOMAIN st.domains[d] = {}}

\* as ChosenAnswer, but the last configured instance wins
RECURSIVE ChosenAnswerLast(_, _)
ChosenAnswerLast(sources, is) ==
    IF is = <<>> THEN ""
    ELSE IF ChosenAnswerLast(sources, Tail(is)) # "" THEN ChosenAnswerLast(sources, Tail(is))
    ELSE IF Head(is) \in DOMAIN sources THEN sources[Head(is)]
    ELSE ""

\* the answer of the first configured instance among the sources of d
RECURSIVE ChosenAnswer(_, _)
ChosenAnswer(sources, is) ==
    IF is = <<>> THEN ""
    ELSE IF Head(is) \in DOMAIN sources THEN sources[Head(is)]
    ELSE ChosenAnswer(sources, Tail(is))

Desired(st, cfg) ==
    LET ds == {d \in DOMAIN st.domains :
                  ChosenAnswer(st.domains[d], cfg.instances) # ""}
    IN  [d \in ds |-> ChosenAnswer(st.domains[d], cfg.instances)]

-----------------------------------------------------------------------------
(* sync_once: the resolver's records, exclusion cleanup, creates and        *)
(* updates, orphan deletion                                                 *)

\* the domains of a record list in order of first appearance
RECURSIVE FirstSeen(_)
FirstSeen(recs) ==
    IF recs = <<>> THEN <<>>
    ELSE LET d == recs[Len(recs)][1]
             before == FirstSeen(SubSeq(recs, 1, Len(recs) - 1))
         IN  IF d \in Range(before) THEN before ELSE Append(before, d)

RecordsByDomain(recs) ==
    [d \in {r[1] : r \in Range(recs)} |-> AnswersOf(recs, d)]

\* records_by_domain.get(domain, [])
Existing(c, d) == IF d \in DOMAIN c.rbd THEN c.rbd[d] ELSE <<>>

ExcludeOne(c, d, cfg, down) ==
    IF d \in DOMAIN cfg.static \/ ~IsDomainExcluded(d, cfg.exclude) THEN c
    ELSE LET deletedAny == \E a \in Range(c.rbd[d]) : IsRecordManaged(c.st, d, a)
             c1 == DeleteManaged(c, d, c.rbd[d], "exclusion", down)
         IN  [c1 EXCEPT !.st = PopDomain(@, d),
                        !.rbd = IF deletedAny THEN Restrict(@, DOMAIN @ \ {d}) ELSE @]

RECURSIVE ExclusionLoop(_, _, _, _)
ExclusionLoop(c, ds, cfg, down) ==
    IF ds = <<>> THEN c
    ELSE ExclusionLoop(ExcludeOne(c, Head(ds), cfg, down), Tail(ds), cfg, down)

ExclusionCleanup(c, ds, cfg, down) ==
    IF cfg.exclude = {} THEN c ELSE ExclusionLoop(c, ds, cfg, down)

\* as DeleteEach, but no record is deleted
DeleteEachNot(c, d, answers, step, down) == c

\* "for old_answer in answers: delete_record, unmark"
RECURSIVE DeleteEach(_, _, _, _, _)
DeleteEach(c, d, answers, step, down) ==
    IF answers = <<>> THEN c
    ELSE DeleteEach([DeleteRecord(c, d, Head(answers), step, down)
                        EXCEPT !.st = UnmarkRecordManaged(@, d, Head(answers))],
                    d, Tail(answers), step, down)

ApplyOne(c, d, answer, down) ==
    LET existing == Existing(c, d)
        managedAnswers == SelectSeq(existing, LAMBDA a : IsRecordManaged(c.st, d, a))
        unmanagedAnswers == SelectSeq(existing, LAMBDA a : ~IsRecordManaged(c.st, d, a))
    IN  IF existing = <<>>
        THEN [AddRecord(c, d, answer, "apply", down)
                 EXCEPT !.st = MarkRecordManaged(@, d, answer)]
        ELSE IF Len(existing) = 1 /\ existing[1] = answer
        THEN [c EXCEPT !.st = MarkRecordManaged(@, d, answer)]
        ELSE IF unmanagedAnswers # <<>>
        THEN IF answer \in Range(unmanagedAnswers)
             THEN DeleteEach([c EXCEPT !.st = MarkRecordManaged(@, d, answer)], d,
                             SelectSeq(managedAnswers, LAMBDA a : a # answer),
                             "apply", down)
             ELSE DeleteEach(c, d, managedAnswers, "apply", down)
        ELSE [AddRecord(DeleteEach(c, d, existing, "apply", down),
                        d, answer, "apply", down)
                 EXCEPT !.st = MarkRecordManaged(@, d, answer)]

RECURSIVE ApplyLoop(_, _, _, _)
ApplyLoop(c, ds, desired, down) ==
    IF ds = <<>> THEN c
    ELSE ApplyLoop(ApplyOne(c, Head(ds), desired[Head(ds)], down),
                   Tail(ds), desired, down)

\* as OrphanOne, but static rewrites are not skipped
OrphanOneAny(c, d, cfg, down) ==
    [DeleteManaged(c, d, Existing(c, d), "orphan", down)
        EXCEPT !.st = PopDomain(@, d)]

OrphanOne(c, d, cfg, down) ==
    IF d \in DOMAIN cfg.static THEN c
    ELSE [DeleteManaged(c, d, Existing(c, d), "orphan", down)
             EXCEPT !.st = PopDomain(@, d)]

RECURSIVE OrphanLoop(_, _, _, _)
OrphanLoop(c, ds, cfg, down) ==
    IF ds = <<>> THEN c
    ELSE OrphanLoop(OrphanOne(c, Head(ds), cfg, down), Tail(ds), cfg, down)

\* the static rewrites that the static step of a cycle added, adopted or rotated to
EnsuredIn(st0, res0, cfg, first, down) ==
    LET c0 == [st |-> st0, res |-> res0, ops |-> <<>>, rbd |-> <<>>]
        c1 == IF first THEN CleanupRemovedInstances(c0, cfg, down) ELSE c0
    IN  {<<d, cfg.static[d]>> : d \in {x \in DOMAIN cfg.static :
              StaticMarks(c1, x, cfg.static[x], GetRecords(c1.res, down))}}

\* sync_once from the loaded document st0 to the document it saves
\* sync_once up to the create/update step: the frame that step starts from,
\* the desired answers and the domains left without sources
BeforeApply(st0, res0, cfg, first, polls, down, now) ==
    LET c0 == [st |-> st0, res |-> res0, ops |-> <<>>, rbd |-> <<>>]
        c1 == IF first THEN CleanupRemovedInstances(c0, cfg, down) ELSE c0
        c2 == SyncStaticRewrites(c1, cfg, down)
        polled == PollInstances(c2.st, cfg.instances, polls, cfg, now)
        pruned == PruneSources(polled, polls, cfg)
        recs == GetRecords(c2.res, down)
        c3 == [c2 EXCEPT !.st = pruned, !.rbd = RecordsByDomain(recs)]
    IN  [c |-> ExclusionCleanup(c3, FirstSeen(recs), cfg, down),
         desired |-> Desired(pruned, cfg),
         orphaned |-> Orphaned(pruned)]

RunCycle(st0, res0, cfg, first, polls, down, now) ==
    LET b == BeforeApply(st0, res0, cfg, first, polls, down, now)
        c5 == ApplyLoop(b.c, SortedSeq(DOMAIN b.desired), b.desired, down)
    IN  OrphanLoop(c5, SortedSeq(b.orphaned), cfg, down)

-----------------------------------------------------------------------------------------------------------------------------------------------------
(* The inputs of the model *)

Config(is, static, exclude) == [instances |-> is, static |-> static, exclude |-> exclude]
NoStatic == <<>>
StaticD1(a) == [d \in {"d1"} |-> a]

\* the configurations a process may be started with: instances in configured
\* order, static_rewrites, exclude_patterns
Configs ==
    { Config(<<"i1", "i2">>, NoStatic, {}),
      Config(<<"i2">>, NoStatic, {}),
      Config(<<"i1", "i2">>, StaticD1("a1"), {}),
      Config(<<"i1", "i2">>, StaticD1("a2"), {}),
      Config(<<"i2">>, StaticD1("a1"), {}),
      Config(<<"i1", "i2">>, NoStatic, {"d1"}),
      Config(<<"i1", "i2">>, StaticD1("a1"), {"d1"}) }

PollFailed == [ok |-> FALSE, routes |-> {}]
\* the route lists a successful poll of an instance may return
RouteChoices(i) ==
    IF i = "i1"
    THEN {{}, {<<"d1", "internal">>}, {<<"d1", "external">>, <<"d2", "internal">>}}
    ELSE {{}, {<<"d1", "internal">>}}
PollOutcomes(i) == {PollFailed} \cup [ok : {TRUE}, routes : RouteChoices(i)]
PollsFor(cfg) ==
    {p \in [InstanceNames -> UNION {PollOutcomes(i) : i \in InstanceNames}] :
        \A i \in InstanceNames :
            IF i \in Range(cfg.instances) THEN p[i] \in PollOutcomes(i)
            ELSE p[i] = PollFailed}

\* the resolver operations that fail during one cycle
DownChoices == {{}, {"list"}, {"add"}, {"delete"}}

\* the rewrites the operator puts into the resolver by hand
OperatorRecords == {<<"d1", "a1">>, <<"d1", "a2">>}

NoInput == [polls |-> [i \in InstanceNames |-> PollFailed], down |-> {}, first |-> FALSE]

\* the operations of a log that failed
Failed(log) ==
    {[op |-> o.op, d |-> o.d, a |-> o.a, b |-> o.b] : o \in {x \in Range(log) : ~x.ok}}

-----------------------------------------------------------------------------
(* StateStore: json.dumps / json.loads and the two files *)

\* the keys of a state document in the order sort_keys=True writes them, and
\* the values they may carry
StoreKeys == <<"domains", "instances">>
StoreValues == {<<>>, <<"a1">>}

\* the well-formed state documents: dictionaries with string keys
Docs == UNION {[K -> StoreValues] : K \in SUBSET Range(StoreKeys)}

\* what load returns when there is no file or the file does not parse
DefaultDoc == [k \in Range(StoreKeys) |-> <<>>]

OpenBrace == <<"{", <<>>>>
CloseBrace == <<"}", <<>>>>

\* as Members, but members with an empty value are left out
MembersNonEmpty(x) ==
    LET keys == SelectSeq(StoreKeys, LAMBDA k : k \in DOMAIN x /\ x[k] # <<>>)
    IN  [n \in 1..Len(keys) |-> <<keys[n], x[keys[n]]>>]

\* json.dumps(state, indent=2, sort_keys=True): the text as a sequence of
\* tokens, one "key: value" member per key in sorted order, between braces
Members(x) ==
    LET keys == SelectSeq(StoreKeys, LAMBDA k : k \in DOMAIN x)
    IN  [n \in 1..Len(keys) |-> <<keys[n], x[keys[n]]>>]

Dumps(x) == <<OpenBrace>> \o Members(x) \o <<CloseBrace>>

\* json.loads: the text parses when it is one complete object; the document
\* has the value of the last member of each key
Parses(text) ==
    /\ Len(text) >= 2
    /\ text[1] = OpenBrace
    /\ text[Len(text)] = CloseBrace
    /\ \A n \in 2..(Len(text) - 1) : text[n][1] \in Range(StoreKeys)

Loads(text) ==
    LET keys == {text[n][1] : n \in 2..(Len(text) - 1)}
        last(k) == CHOOSE n \in 2..(Len(text) - 1) :
                       /\ text[n][1] = k
                       /\ \A m \in (n + 1)..(Len(text) - 1) : text[m][1] # k
    IN  [k \in keys |-> text[last(k)][2]]

\* a file: absent, or present with some text
NoFile == [exists |-> FALSE, text |-> <<>>]
File(text) == [exists |-> TRUE, text |-> text]

\* writing the text straight to the state path
WriteTextInPlace(d, text) == [d EXCEPT !.path = File(text)]

\* tmp_path.write_text: the .tmp file holds the text written so far
WriteText(d, text) == [d EXCEPT !.tmp = File(text)]

\* tmp_path.replace(self.path): the .tmp file becomes the state file
Replace(d) == [path |-> d.tmp, tmp |-> NoFile]

\* StateStore.load
Load(path) ==
    IF ~path.exists THEN DefaultDoc
    ELSE IF Parses(path.text) THEN Loads(path.text)
    ELSE DefaultDoc

DiskInit == [path |-> NoFile, tmp |-> NoFile]
\* pc: where the process is in save; arg: the document being saved; before:
\* the state file as save found it; loaded: what the last load returned;
\* started: the documents save has been called with; last: what happened last
StoreInit == [pc |-> "idle", arg |-> DefaultDoc, before |-> NoFile,
              loaded |-> DefaultDoc, started |-> {}, saves |-> 0, last |-> "none"]

-----------------------------------------------------------------------------
(* main in watch mode: the configuration files, the snapshot, the adapter *)

\* the .yaml files CONFIG_PATH may hold, in the sorted order find_config_files
\* returns them, and the instance each declares under 'sources'
FileNames == <<"f1", "f2">>
InstanceOf == [f \in Range(FileNames) |-> IF f = "f1" THEN "i1" ELSE "i2"]

\* a configuration file: its modification time and whether it still parses
\* and declares a usable instance
ConfigFile(mtime, valid) == [mtime |-> mtime, valid |-> valid]

\* find_config_files / get_config_files_mtimes: the snapshot of a directory
Mtimes(files) == [f \in DOMAIN files |-> files[f].mtime]

\* as FilesChanged, but only the set of files is compared
FilesChangedSetOnly(currentMtimes, lastMtimes) ==
    DOMAIN currentMtimes # DOMAIN lastMtimes

\* files_changed = set(current_config_files) != set(config_files)
\*                 or current_mtimes != last_config_mtimes
FilesChanged(currentMtimes, lastMtimes) ==
    DOMAIN currentMtimes # DOMAIN lastMtimes \/ currentMtimes # lastMtimes

\* TraefikProxyProvider.get_instances: the instances of the files that load;
\* a file that fails to load is logged and skipped; when no file yields an
\* instance the environment is the fallback, which names none here
EnvInstances == <<>>
GetInstances(files) ==
    LET loaded == SelectSeq(FileNames, LAMBDA f : f \in DOMAIN files /\ files[f].valid)
    IN  IF loaded # <<>> THEN [n \in 1..Len(loaded) |-> InstanceOf[loaded[n]]]
        ELSE EnvInstances

\* the files main starts with
FilesInit == [f \in {"f1"} |-> ConfigFile(0, TRUE)]

\* pc: the position of main (test: the while condition; sync: about to call
\* the periodic sync_once; cycle: inside sync_once; check: comparing the
\* snapshot; reload: about to call sync_once after a reload; waitcall: about
\* to call wait; waiting: blocked in wait; exit: the loop has ended; fatal:
\* the outer handler).
\* kind: the cycle in flight or about to start; inflight: cycles in flight;
\* calls: HTTP calls the cycle has started; using: the instances it got.
\* files: the configuration directory; snapshot: last_config_mtimes;
\* adapter: the files the proxy adapter in use was built for; edits: changes
\* of the directory so far; good: the instances of the directory when it
\* last yielded any.
\* changed, extra: whether the check of this iteration saw a change, and the
\* reload cycles begun in this iteration.  last: the last step of main.
\* sigat: where main was when the signal arrived.  failed: the kinds of cycle
\* that have raised so far.
DaemonInit ==
    [pc |-> "test", kind |-> "periodic", shutdown |-> FALSE, inflight |-> 0,
     calls |-> 0, using |-> <<>>, files |-> FilesInit, snapshot |-> Mtimes(FilesInit),
     adapter |-> Mtimes(FilesInit), edits |-> 0, good |-> GetInstances(FilesInit),
     changed |-> FALSE, extra |-> 0, last |-> "start", sigat |-> "none",
     failed |-> {}]

-----------------------------------------------------------------------------
(* retry_with_backoff: where a call starts *)

\* what one call of func does: it returns, raises one of the
\* retryable_exceptions, or raises another exception
Outcomes == {"ok", "retryable", "other"}

\* pc: idle, call (about to call func), sleep (about to sleep), returned,
\* raised.  maxRetries: the argument.  outcomes: what func does at each call.
\* attempt: the loop variable.  calls, sleeps: calls of func and of time.sleep
\* so far.  lastAt: the call whose exception last_exception holds (0: None).
\* exc: the kind of exception that left the function.  http: when func is the
\* _do_request of an adapter, what each request meets, call after call.
RetryInit == [pc |-> "idle", maxRetries |-> 0, outcomes |-> <<>>, attempt |-> 0,
              calls |-> 0, sleeps |-> 0, lastAt |-> 0, exc |-> "none", http |-> <<>>]

-----------------------------------------------------------------------------
(* The state machine *)

\* a process started with one of the configurations cfgs, on an empty state
\* file and an empty resolver
Start(cfgs) ==
    /\ resolver = <<>>
    /\ stateFile = EmptyState
    /\ config \in cfgs
    /\ startupCleanupDone = FALSE
    /\ clock = 0
    /\ restarts = 0
    /\ edits = 0
    /\ outages = 0
    /\ pre = [resolver |-> <<>>, state |-> EmptyState, config |-> config]
    /\ disk = DiskInit
    /\ store = StoreInit
    /\ daemon = DaemonInit
    /\ retry = RetryInit
    /\ inp = NoInput
    /\ ops = <<>>
    /\ prev = [down |-> {}, failed |-> {}, same |-> FALSE, ensured |-> {}]
    /\ calm = FALSE

\* one reconcile cycle: load, reconcile, save
Cycle(polls, down) ==
    LET first == ~startupCleanupDone
        c == RunCycle(stateFile, resolver, config, first, polls, down, clock + 1)
    IN  /\ down # {} => outages < MaxOutages
        /\ outages' = IF down # {} THEN outages + 1 ELSE outages
        /\ resolver' = c.res
        /\ stateFile' = c.st
        /\ ops' = c.ops
        /\ inp' = [polls |-> polls, down |-> down, first |-> first]
        /\ prev' = [down |-> inp.down, failed |-> Failed(ops),
                    same |-> calm /\ polls = inp.polls,
                    ensured |-> IF clock = 0 THEN {}
                                ELSE prev.ensured \cup
                                     EnsuredIn(pre.state, pre.resolver, pre.config,
                                               inp.first, inp.down)]
        /\ pre' = [resolver |-> resolver, state |-> stateFile, config |-> config]
        /\ calm' = TRUE
        /\ startupCleanupDone' = TRUE
        /\ clock' = clock + 1
        /\ UNCHANGED <<config, restarts, edits, disk, store, daemon, retry>>

\* the process is stopped and started again with one of the configurations cfgs
RestartWith(cfgs) ==
    /\ restarts < MaxRestarts
    /\ clock >= 1
    /\ config' \in cfgs
    /\ startupCleanupDone' = FALSE
    /\ restarts' = restarts + 1
    /\ calm' = FALSE
    /\ UNCHANGED <<resolver, stateFile, clock, edits, outages, pre, inp, ops, prev,
                   disk, store, daemon, retry>>

Init == Start(Configs)

SyncOnce ==
    /\ clock < MaxCycles
    /\ \E polls \in PollsFor(config), down \in DownChoices : Cycle(polls, down)

Restart == RestartWith(Configs)

\* the operator adds a rewrite by hand
OperatorAdd ==
    /\ edits < MaxEdits
    /\ \E r \in OperatorRecords :
          /\ r \notin Range(resolver)
          /\ resolver' = Append(resolver, r)
    /\ edits' = edits + 1
    /\ calm' = FALSE
    /\ UNCHANGED <<stateFile, config, startupCleanupDone, clock, restarts, outages,
                   pre, inp, ops, prev, disk, store, daemon, retry>>

Next == SyncOnce \/ Restart \/ OperatorAdd

Spec == Init /\ [][Next]_vars

\* Longer runs over fewer inputs: every instance either fails its poll, reports
\* nothing or reports d1; a static rewrite may have an answer of its own.
LongConfigs ==
    { Config(<<"i1", "i2">>, NoStatic, {}),
      Config(<<"i1", "i2">>, StaticD1("a1"), {}),
      Config(<<"i1", "i2">>, StaticD1("a3"), {}) }
LongPollsFor(cfg) ==
    {p \in PollsFor(cfg) : \A i \in InstanceNames : p[i].routes \subseteq {<<"d1", "internal">>}}
LongDownChoices == {{}, {"list"}, {"add"}, {"delete"}}

InitLong == Start(LongConfigs)

SyncOnceLong ==
    /\ clock < MaxLongCycles
    /\ \E polls \in LongPollsFor(config), down \in LongDownChoices : Cycle(polls, down)

RestartLong == RestartWith(LongConfigs)

NextLong == SyncOnceLong \/ RestartLong

SpecLong == InitLong /\ [][NextLong]_vars

-----------------------------------------------------------------------------------------------------------------------------------------------------
(* Vocabulary of the properties *)

\* the pairs of managed_records in a state document
ManagedPairs(st) ==
    {p \in Domains \X Answers : p[1] \in DOMAIN st.managed /\ p[2] \in Range(st.managed[p[1]])}

\* the instances named as sources of d in a state document
SourcesOf(st, d) == IF d \in DOMAIN st.domains THEN DOMAIN st.domains[d] ELSE {}

\* the answers the resolver holds for d
Held(res, d) == {r[2] : r \in {x \in Range(res) : x[1] = d}}

\* the logged operations of some kinds
OpsOf(kinds) == {o \in Range(ops) : o.op \in kinds}
\* delete_record is also what update_record starts with
Deletes == OpsOf({"delete", "update"})

\* the last cycle: the instances it polled, its configuration, its outcome
Polled == Range(pre.config.instances)
PollFailedFor(i) == i \in Polled /\ ~inp.polls[i].ok
AllPollsFailed == \A i \in Polled : ~inp.polls[i].ok
Excluded(d) == IsDomainExcluded(d, pre.config.exclude)
IsStatic(d) == d \in DOMAIN pre.config.static
Reliable == inp.down = {}
\* instance i reported hostname h in the last cycle, as an INTERNAL route
Reported(i, h) == i \in Polled /\ inp.polls[i].ok /\ <<h, "internal">> \in inp.polls[i].routes
\* i precedes j in the configured order
Precedes(i, j) ==
    \E m, n \in DOMAIN pre.config.instances :
        m < n /\ pre.config.instances[m] = i /\ pre.config.instances[n] = j
\* the last cycle ran right after a cycle with the same polls, with no restart
\* and no operator edit in between, and the resolver failed in neither
Repeated == calm /\ prev.same /\ Reliable /\ prev.down = {}

-----------------------------------------------------------------------------
(* Properties *)

\* C1: no unmanaged mutation.  After a cycle, every record the resolver held
\* before the cycle that was not in managed_records as loaded and whose domain
\* matches no exclusion pattern is still in the resolver.  Stated for runs in
\* which no resolver operation has failed, where it is already violated.
NoUnmanagedMutation ==
    (calm /\ outages = 0) =>
        \A r \in Range(pre.resolver) :
            (r \notin ManagedPairs(pre.state) /\ ~Excluded(r[1])) => r \in Range(resolver)

FailurePreservation ==
    ( /\ calm /\ outages = 0 /\ edits = 0 /\ pre.config.static = NoStatic
      /\ Polled # {} /\ AllPollsFailed ) =>
        \A o \in Deletes : Excluded(o.d)

\* C3 amended: in a cycle in which every poll fails, no source entry of a
\* configured instance is pruned (for a domain that matches no exclusion
\* pattern it is still in the saved state), and the orphan-deletion step issues
\* no delete for a domain that had a source in the loaded state.
FailurePreservationAmended ==
    (calm /\ AllPollsFailed) =>
        /\ \A d \in Domains : \A i \in SourcesOf(pre.state, d) \cap Polled :
              ~Excluded(d) => i \in SourcesOf(stateFile, d)
        /\ \A o \in Deletes : o.step = "orphan" => SourcesOf(pre.state, o.d) = {}

\* C3 witness: every poll failed, and a managed record of a domain sourced by
\* a configured instance is still in the resolver
FailurePreservationWitness ==
    /\ calm /\ Polled # {} /\ AllPollsFailed
    /\ \E d \in Domains : \E i \in SourcesOf(pre.state, d) \cap Polled :
          /\ <<d, TargetIp[i]>> \in ManagedPairs(pre.state)
          /\ Has(pre.resolver, d, TargetIp[i])
          /\ Has(resolver, d, TargetIp[i])
          /\ i \in SourcesOf(stateFile, d)

\* C4: idempotence.  A cycle that repeats the previous one with unchanged
\* inputs issues no add, delete or update.
Idempotence ==
    Repeated => ops = <<>>

\* C5: exclusion enforcement.  After a cycle, managed_records has no entry for
\* a hostname that matches an exclusion pattern, and the resolver holds no
\* record of such a hostname that was managed.  Stated for hostnames that are
\* not static rewrites and runs in which no resolver operation has failed.
ExclusionEnforcement ==
    (calm /\ outages = 0) =>
        \A d \in Domains : (Excluded(d) /\ ~IsStatic(d)) =>
            /\ d \notin DOMAIN stateFile.managed
            /\ \A a \in Held(resolver, d) : <<d, a>> \notin ManagedPairs(pre.state)

\* C6: excluded domains are not synced.  No cycle issues add_record for, or
\* marks as managed, a hostname that matches an exclusion pattern and is not a
\* static rewrite.
ExcludedNotSynced ==
    \A d \in Domains : (Excluded(d) /\ ~IsStatic(d)) =>
        /\ \A o \in OpsOf({"add"}) : o.d # d
        /\ \A p \in ManagedPairs(stateFile) : p[1] = d => p \in ManagedPairs(pre.state)

ListFailureShortCircuits ==
    (calm /\ "list" \in inp.down) =>
        /\ \A o \in Range(ops) : o.step \notin {"exclusion", "apply", "orphan"}
        /\ \A d \in Domains :
              SourcesOf(pre.state, d) \cap Polled # {} => d \in DOMAIN stateFile.domains

\* the last cycle changed nothing: later cycles with the same inputs repeat it
Settled ==
    /\ ops = <<>>
    /\ resolver = pre.resolver
    /\ stateFile.domains = pre.state.domains
    /\ stateFile.managed = pre.state.managed

\* C9: a failed resolver operation is retried by later cycles until the
\* resolver agrees.  Once the cycles with unchanged inputs and a working
\* resolver have settled, a record whose delete failed is gone, a record whose
\* add failed is there, and a static rewrite whose update failed is rotated.
FailedOperationRetried ==
    (calm /\ prev.same /\ Reliable /\ Settled) =>
        \A f \in prev.failed :
            /\ f.op = "delete" => ~Has(resolver, f.d, f.a)
            /\ f.op = "add" => Has(resolver, f.d, f.a)
            /\ f.op = "update" => Has(resolver, f.d, f.b)

\* C10 as stated: in a cycle in which the poll of instance i fails, no delete
\* is issued for a domain sourced by i, the resolver is unchanged for those
\* domains, and the saved state has last_error set and last_success kept.
\* Stated for configurations without static rewrites and exclusion patterns
\* and runs in which no resolver operation has failed.
InstanceDownPreserve ==
    (calm /\ outages = 0 /\ pre.config.static = NoStatic /\ pre.config.exclude = {}) =>
        \A i \in InstanceNames : PollFailedFor(i) =>
            /\ \A d \in Domains : i \in SourcesOf(pre.state, d) =>
                  /\ \A o \in Deletes : o.d # d
                  /\ Held(resolver, d) = Held(pre.resolver, d)
            /\ stateFile.instances[i].last_error # ""
            /\ stateFile.instances[i].last_success =
                  IF i \in DOMAIN pre.state.instances
                  THEN pre.state.instances[i].last_success ELSE 0

\* C10 amended: in a cycle in which the poll of instance i fails, no source
\* entry of i is pruned (for a domain that matches no exclusion pattern it is
\* still in the saved state), the orphan-deletion step issues no delete for a
\* domain sourced by i, and the saved state has last_error set and
\* last_success kept.
InstanceDownPreserveAmended ==
    calm =>
        \A i \in InstanceNames : PollFailedFor(i) =>
            /\ \A d \in Domains : i \in SourcesOf(pre.state, d) =>
                  /\ ~Excluded(d) => i \in SourcesOf(stateFile, d)
                  /\ \A o \in Deletes : o.step = "orphan" => o.d # d
            /\ stateFile.instances[i].last_error # ""
            /\ stateFile.instances[i].last_success =
                  IF i \in DOMAIN pre.state.instances
                  THEN pre.state.instances[i].last_success ELSE 0

\* C10 witness: i1 was polled successfully before and fails now while i2
\* answers; the record of a domain sourced by i1 is kept
InstanceDownPreserveWitness ==
    /\ calm /\ PollFailedFor("i1") /\ Reported("i2", "d1")
    /\ "i1" \in SourcesOf(pre.state, "d1") /\ "i1" \in SourcesOf(stateFile, "d1")
    /\ stateFile.instances["i1"].last_success >= 1
    /\ stateFile.instances["i1"].last_error # ""
    /\ Has(resolver, "d1", "a1")

\* instance i was polled successfully in the last cycle and did not report d
\* as a hostname to sync
ConfirmedAbsent(i, d) ==
    /\ i \in Polled
    /\ inp.polls[i].ok
    /\ d \notin Seen(inp.polls[i].routes, pre.config)

\* the source entry of instance i for domain d was removed by the last cycle
SourceRemoved(d, i) == i \in SourcesOf(pre.state, d) /\ i \notin SourcesOf(stateFile, d)

\* C11 as stated: a source entry sources[i] of domain d is removed only in a
\* cycle in which instance i was polled successfully and did not report d.
\* Stated for configurations without exclusion patterns.
SourceLifecycle ==
    (calm /\ pre.config.exclude = {}) => \A d \in Domains : \A i \in InstanceNames :
        SourceRemoved(d, i) => ConfirmedAbsent(i, d)

\* C11 amended: a source entry sources[i] of domain d is removed only in a
\* cycle in which instance i was polled successfully and did not report d, or
\* in the first cycle of a process in which i is not configured any more, or
\* in a cycle in which d matches an exclusion pattern, is not a static rewrite
\* and has a record in the resolver.
SourceLifecycleAmended ==
    calm => \A d \in Domains : \A i \in InstanceNames :
        SourceRemoved(d, i) =>
            \/ ConfirmedAbsent(i, d)
            \/ inp.first /\ i \notin Polled
            \/ Excluded(d) /\ ~IsStatic(d) /\ Held(pre.resolver, d) # {}

\* C11 witness: of the two sources of d1, the one of the instance that answered
\* without d1 is removed and the one of the instance that failed is kept
SourceLifecycleWitness ==
    /\ calm
    /\ SourcesOf(pre.state, "d1") = {"i1", "i2"}
    /\ ConfirmedAbsent("i1", "d1") /\ PollFailedFor("i2")
    /\ SourcesOf(stateFile, "d1") = {"i2"}

\* managed_records[d] of a state document, <<>> when there is none
ManagedOf(st, d) == IF d \in DOMAIN st.managed THEN st.managed[d] ELSE <<>>

\* no instance reported h in the last cycle
Unreported(h) == \A j \in InstanceNames : ~Reported(j, h)

\* instance i is the only instance that reported h in the last cycle
OnlyReporter(i, h) ==
    Reported(i, h) /\ \A j \in InstanceNames \ {i} : ~Reported(j, h)

\* C12: add (S1).  Starting from an empty persisted state and a resolver with
\* no record for h, if one configured instance with target t is polled
\* successfully and reports h (INTERNAL zone, not excluded), then after one
\* cycle in which the resolver works the resolver holds (h, t) as its only
\* record for h and managed_records[h] = [t].
AddNewRecord ==
    (calm /\ Reliable /\ pre.state = EmptyState) =>
        \A h \in Domains : \A i \in InstanceNames :
            (OnlyReporter(i, h) /\ ~Excluded(h) /\ Held(pre.resolver, h) = {}) =>
                /\ Held(resolver, h) = {TargetIp[i]}
                /\ ManagedOf(stateFile, h) = <<TargetIp[i]>>

\* C12 witness: from an empty state i2 alone reported d1 and the cycle added
\* (d1, a2)
AddNewRecordWitness ==
    /\ calm /\ Reliable /\ pre.state = EmptyState
    /\ OnlyReporter("i2", "d1") /\ ~Excluded("d1") /\ Held(pre.resolver, "d1") = {}
    /\ ops = <<[op |-> "add", d |-> "d1", a |-> "a2", b |-> "a2", step |-> "apply",
                managed |-> FALSE, ok |-> TRUE]>>
    /\ Held(resolver, "d1") = {"a2"}
    /\ ManagedOf(stateFile, "d1") = <<"a2">>

\* before the last cycle instance i was the only source of h, and the record
\* (h, target of i) was in the resolver and in managed_records
SoleSourceRecord(i, h) ==
    /\ SourcesOf(pre.state, h) = {i}
    /\ Has(pre.resolver, h, TargetIp[i])
    /\ <<h, TargetIp[i]>> \in ManagedPairs(pre.state)

\* the last cycle left no trace of (h, a): not in the resolver, not in
\* managed_records, and h not in state.domains
Removed(h, a) ==
    /\ ~Has(resolver, h, a)
    /\ <<h, a>> \notin ManagedPairs(stateFile)
    /\ h \notin DOMAIN stateFile.domains

\* C13 as stated: remove (S2).  If the engine added (h, t) for a hostname whose
\* only source is instance i, and in the next cycle i is polled successfully
\* and no longer reports h, then that cycle deletes (h, t) from the resolver,
\* removes it from managed_records, and state.domains no longer contains h.
\* Stated for cycles in which the resolver works and no instance reports h.
RemoveWithdrawn ==
    (calm /\ Reliable) =>
        \A h \in Domains : \A i \in InstanceNames :
            (SoleSourceRecord(i, h) /\ ConfirmedAbsent(i, h) /\ Unreported(h))
                => Removed(h, TargetIp[i])

\* C13 amended: as C13, for a hostname that is not a configured static rewrite.
RemoveWithdrawnAmended ==
    (calm /\ Reliable) =>
        \A h \in Domains : \A i \in InstanceNames :
            (SoleSourceRecord(i, h) /\ ConfirmedAbsent(i, h) /\ Unreported(h) /\ ~IsStatic(h))
                => Removed(h, TargetIp[i])

\* C13 witness: i2 was the only source of d1 and answered without it; the
\* orphan step deleted (d1, a2)
RemoveWithdrawnWitness ==
    /\ calm /\ Reliable
    /\ SoleSourceRecord("i2", "d1") /\ ConfirmedAbsent("i2", "d1") /\ ~IsStatic("d1")
    /\ \E o \in OpsOf({"delete"}) : o.step = "orphan" /\ o.d = "d1" /\ o.a = "a2" /\ o.ok
    /\ Removed("d1", "a2")

\* the loaded state names i as the only source of d and has no managed_records,
\* the resolver holds (d, a), and i answers without d
RouteGoneNoOwnership(i, d, a) ==
    /\ SourcesOf(pre.state, d) = {i}
    /\ pre.state.managed = <<>>
    /\ Has(pre.resolver, d, a)
    /\ ConfirmedAbsent(i, d)

LastBefore ==
    BeforeApply(pre.state, pre.resolver, pre.config, inp.first, inp.polls, inp.down, clock)

\* the desired answer of d in the last cycle, "" when there is none
LastDesired(d) ==
    IF d \in DOMAIN LastBefore.desired THEN LastBefore.desired[d] ELSE ""

\* existing_answers of d in the create/update step of the last cycle
LastExisting(d) == Existing(LastBefore.c, d)

\* the operations the create/update step of the last cycle issued for d
ApplyOps(d) == SelectSeq(ops, LAMBDA o : o.step = "apply" /\ o.d = d)

\* in the create/update step of the last cycle the resolver listed records for
\* d, all of them managed and none of them the desired answer
AllManagedWrong(d) ==
    /\ LastDesired(d) # ""
    /\ LastExisting(d) # <<>>
    /\ \A a \in Range(LastExisting(d)) : IsRecordManaged(LastBefore.c.st, d, a)
    /\ LastDesired(d) \notin Range(LastExisting(d))

\* C15: update (S3).  If every resolver record for d is managed and the desired
\* answer differs from them, the create/update step of a cycle in which the
\* resolver works first issues one delete for every existing answer of d and
\* only then one add of the desired answer (two operations when there is one
\* old record), and the resolver ends with exactly (d, desired).
UpdateDeletesThenAdds ==
    (calm /\ Reliable) =>
        \A d \in Domains : AllManagedWrong(d) =>
            LET n == Len(LastExisting(d))
            IN  /\ Len(ApplyOps(d)) = n + 1
                /\ \A k \in 1..n :
                      ApplyOps(d)[k].op = "delete" /\ ApplyOps(d)[k].a = LastExisting(d)[k]
                /\ ApplyOps(d)[n + 1].op = "add" /\ ApplyOps(d)[n + 1].a = LastDesired(d)
                /\ Held(resolver, d) = {LastDesired(d)}

\* C15 witness: (d1, a2) was the only record of d1 and managed, the desired
\* answer became a1, and the cycle deleted a2 and then added a1
UpdateDeletesThenAddsWitness ==
    /\ calm /\ Reliable
    /\ AllManagedWrong("d1") /\ LastExisting("d1") = <<"a2">> /\ LastDesired("d1") = "a1"
    /\ Held(pre.resolver, "d1") = {"a2"}
    /\ Len(ops) = 2
    /\ ops[1].op = "delete" /\ ops[1].step = "apply" /\ ops[1].a = "a2"
    /\ ops[2].op = "add" /\ ops[2].step = "apply" /\ ops[2].a = "a1"
    /\ Held(resolver, "d1") = {"a1"}

\* a cycle that replaced two managed records of d1 by the desired answer
UpdateTwoOldRecords ==
    /\ calm /\ Reliable
    /\ AllManagedWrong("d1") /\ Len(LastExisting("d1")) = 2
    /\ Len(ApplyOps("d1")) = 3

\* the last cycle started from an empty persisted state with records for d in
\* the resolver, none of them the desired answer of d
FreshWrongRecords(d) ==
    /\ pre.state = EmptyState
    /\ Held(pre.resolver, d) # {}
    /\ LastDesired(d) # ""
    /\ LastDesired(d) \notin Held(pre.resolver, d)

UnmanagedUnreported(d, a) ==
    /\ Has(pre.resolver, d, a)
    /\ ~IsRecordManaged(pre.state, d, a)
    /\ d \notin DOMAIN pre.state.domains
    /\ Unreported(d)
    /\ ~IsStatic(d)

UnmanagedExcludedKept ==
    \E a \in Answers :
        UnmanagedUnreported("d1", a) /\ Excluded("d1") /\ Reliable /\ Has(resolver, "d1", a)

\* no route stands for d in the last cycle: none reported it and the persisted
\* state carried no source of it
NoRouteFor(d) == Unreported(d) /\ d \notin DOMAIN pre.state.domains

\* the last cycle found (d, a) as the only record of d, d = a configured
\* as a static rewrite, and (d, a) not in managed_records
StaticAdoptCase(d, a) ==
    /\ IsStatic(d) /\ pre.config.static[d] = a
    /\ Held(pre.resolver, d) = {a}
    /\ ~IsRecordManaged(pre.state, d, a)

\* the last cycle found (d, a) as the only record of d, managed, and the static
\* rewrite of d configured with another answer
StaticRotateCase(d, a) ==
    /\ IsStatic(d) /\ pre.config.static[d] # a
    /\ Held(pre.resolver, d) = {a}
    /\ ManagedOf(pre.state, d) = <<a>>

\* C18: static rewrite adopt then rotate (S8), for a domain no route stands for
\* and a resolver that carries out its operations.  If the resolver holds the
\* unmanaged record (d, a) and d = a is a configured static rewrite, the cycle
\* issues no resolver operation for d, the record stays and is marked managed.
\* If (d, a) is managed and the static rewrite is configured as d = a2 with
\* a2 # a, the cycle issues one update, the resolver ends with (d, a2) as the
\* only record of d and managed_records[d] is [a2].
StaticAdoptThenRotate ==
    (calm /\ Reliable) =>
        \A d \in Domains, a \in Answers : NoRouteFor(d) =>
            /\ StaticAdoptCase(d, a) =>
                  /\ \A o \in Range(ops) : o.d # d
                  /\ Held(resolver, d) = {a}
                  /\ IsRecordManaged(stateFile, d, a)
            /\ StaticRotateCase(d, a) =>
                  /\ \E o \in OpsOf({"update"}) :
                        o.d = d /\ o.a = a /\ o.b = pre.config.static[d] /\ o.step = "static"
                  /\ \A o \in Range(ops) : o.d = d => o.op = "update"
                  /\ Held(resolver, d) = {pre.config.static[d]}
                  /\ ManagedOf(stateFile, d) = <<pre.config.static[d]>>

\* C18 witness: the operator's record (d1, a1) was adopted under the static
\* rewrite d1 = a1; after a restart with d1 = a2 the cycle rotated it
StaticAdoptThenRotateWitness ==
    /\ calm /\ edits = 1 /\ restarts = 1 /\ outages = 0 /\ NoRouteFor("d1")
    /\ StaticRotateCase("d1", "a1") /\ pre.config.static["d1"] = "a2"
    /\ Held(resolver, "d1") = {"a2"}
    /\ ManagedOf(stateFile, "d1") = <<"a2">>

\* C18, the adopting cycle is reached: the operator's (d1, a1) marked managed
\* with no operation issued
StaticAdopted ==
    /\ calm /\ Reliable /\ NoRouteFor("d1") /\ StaticAdoptCase("d1", "a1")
    /\ ops = <<>>
    /\ ManagedOf(stateFile, "d1") = <<"a1">>

\* C19 as stated: static rewrites are never removed.  Once the static step of
\* a cycle has added or adopted the static rewrite record (d, a), no later
\* cycle issues a delete for (d, a), whether or not d is still configured,
\* reported by a proxy or matched by an exclusion pattern.
StaticNeverRemoved ==
    \A o \in OpsOf({"delete"}) : <<o.d, o.a>> \notin prev.ensured

\* C19, the case of a rewrite that has left the configuration: no later cycle
\* issues a delete for a record ensured earlier once its domain is no longer a
\* configured static rewrite.
StaticNeverRemovedAfterUnconfigured ==
    \A o \in OpsOf({"delete"}) : ~IsStatic(o.d) => <<o.d, o.a>> \notin prev.ensured

\* C20 as stated: static rewrites are ensured to exist.  With a reliable
\* resolver, at the end of every cycle the resolver holds (d, a) for every
\* configured static rewrite d = a for which the resolver held no unmanaged
\* record with another answer, also when a proxy instance reports d with a
\* different target.
StaticEnsured ==
    (calm /\ Reliable) =>
        \A d \in Domains :
            (/\ IsStatic(d)
             /\ \A x \in Held(pre.resolver, d) :
                   x # pre.config.static[d] => IsRecordManaged(pre.state, d, x))
            => Has(resolver, d, pre.config.static[d])

\* the last cycle placed (d, a) in the resolver: an add of it, or an update to
\* it, was issued and carried out
Placed(d, a) ==
    \/ \E o \in OpsOf({"add"}) : o.d = d /\ o.a = a /\ o.ok
    \/ \E o \in OpsOf({"update"}) : o.d = d /\ o.b = a /\ o.ok

\* C21 as stated: ownership invariant.  In the state a cycle saves, an answer a
\* is newly in managed_records[d] only if the cycle created (d, a) in the
\* resolver with an add that succeeded, or adopted it after observing it in
\* the resolver; and a record the engine owned and still finds in the resolver
\* after the cycle is still in managed_records: a failed add or a failed delete
\* never leaves managed_records disagreeing with the resolver.
OwnershipInvariant ==
    calm =>
        \A d \in Domains, a \in Answers :
            /\ (IsRecordManaged(stateFile, d, a) /\ ~IsRecordManaged(pre.state, d, a))
                   => (Placed(d, a) \/ Has(pre.resolver, d, a))
            /\ (IsRecordManaged(pre.state, d, a) /\ Has(pre.resolver, d, a)
                    /\ Has(resolver, d, a))
                   => IsRecordManaged(stateFile, d, a)

-----------------------------------------------------------------------------
(* StateStore: save step by step, a crash at any point, load *)

\* save(x) is called: the parent directory is made
SaveBegin ==
    /\ store.pc = "idle"
    /\ store.saves < MaxSaves
    /\ \E x \in Docs \cup {store.loaded} :
          store' = [store EXCEPT !.pc = "open", !.arg = x, !.before = disk.path,
                                 !.started = @ \cup {x}, !.saves = @ + 1,
                                 !.last = "saving"]
    /\ UNCHANGED <<engineVars, disk, daemon, retry>>

\* write_text opens the .tmp file, which creates or empties it
SaveOpen ==
    /\ store.pc = "open"
    /\ disk' = WriteText(disk, <<>>)
    /\ store' = [store EXCEPT !.pc = "write"]
    /\ UNCHANGED <<engineVars, daemon, retry>>

\* write_text writes the next piece of the text
SaveWrite ==
    /\ store.pc = "write"
    /\ Len(disk.tmp.text) < Len(Dumps(store.arg))
    /\ disk' = WriteText(disk, SubSeq(Dumps(store.arg), 1, Len(disk.tmp.text) + 1))
    /\ UNCHANGED <<engineVars, store, daemon, retry>>

\* the text is written in full: replace, and save returns
SaveReplace ==
    /\ store.pc = "write"
    /\ Len(disk.tmp.text) = Len(Dumps(store.arg))
    /\ disk' = Replace(disk)
    /\ store' = [store EXCEPT !.pc = "idle", !.last = "saved"]
    /\ UNCHANGED <<engineVars, daemon, retry>>

\* the process dies inside save and is started again
Crash ==
    /\ store.pc \in {"open", "write"}
    /\ store' = [store EXCEPT !.pc = "idle", !.last = "crashed"]
    /\ UNCHANGED <<engineVars, disk, daemon, retry>>

\* load()
LoadFile ==
    /\ store.pc = "idle"
    /\ store.last # "loaded"
    /\ store' = [store EXCEPT !.loaded = Load(disk.path), !.last = "loaded"]
    /\ UNCHANGED <<engineVars, disk, daemon, retry>>

InitStore == Start({Config(<<"i1", "i2">>, NoStatic, {})})

NextStore == SaveBegin \/ SaveOpen \/ SaveWrite \/ SaveReplace \/ Crash \/ LoadFile

SpecStore == InitStore /\ [][NextStore]_vars

\* C22: atomic state file.  At every instant, also after a crash at any point
\* inside save, the file at the state path is absent or holds the complete
\* text of a document that save was called with (a completed save or the one
\* in progress); a partly written text is never at the state path; and right
\* after a completed save there is no .tmp file.
AtomicStateFile ==
    /\ disk.path.exists =>
          /\ Parses(disk.path.text)
          /\ \E x \in store.started : disk.path.text = Dumps(x)
    /\ store.last = "saved" => ~disk.tmp.exists

\* C22 witness: a crash inside save left a partly written .tmp file while the
\* state path still holds the complete document of the save before
AtomicStateFileWitness ==
    /\ store.last = "crashed"
    /\ disk.tmp.exists /\ disk.tmp.text # <<>> /\ ~Parses(disk.tmp.text)
    /\ disk.path.exists /\ disk.path.text = Dumps(Load(disk.path))
    /\ store.arg # Load(disk.path)

\* C23: state round trip.  After save(x) for a well-formed document x, load
\* returns x; and when the document saved is the one load returned for the
\* stored file, the stored file is what it was.
StateRoundTrip ==
    store.last = "saved" =>
        /\ Load(disk.path) = store.arg
        /\ (store.before.exists /\ store.arg = Load(store.before))
               => disk.path = store.before

\* C23 witness: a document with both keys and a non-empty value was loaded
\* from the stored file and saved again
StateRoundTripWitness ==
    /\ store.last = "saved"
    /\ store.before.exists /\ store.arg = Load(store.before)
    /\ store.arg = store.loaded
    /\ DOMAIN store.arg = Range(StoreKeys)
    /\ \E k \in DOMAIN store.arg : store.arg[k] # <<>>
    /\ \E k \in DOMAIN store.arg : store.arg[k] = <<>>

-----------------------------------------------------------------------------
(* main in watch mode: the polling loop, the shutdown event, config reload *)

\* the loop goes on for ever
ContinueAlways(d) == TRUE

\* "while not _shutdown_event.is_set()"
Continue(d) == ~d.shutdown

\* the cycle that raised stays in flight
UnwindNot(d) == d

\* sync_once is left, by return or by an exception: the cycle is over
Unwind(d) == [d EXCEPT !.inflight = @ - 1]

\* the exception leaves the loop for the outer handler of main
Uncaught(d) == [d EXCEPT !.pc = "fatal"]

\* "except Exception" around sync_once: the periodic cycle's handler goes on
\* to the config check, the reload's handler to the wait
Caught(d) == [d EXCEPT !.pc = IF d.kind = "periodic" THEN "check" ELSE "waitcall"]

\* the while condition is evaluated
LoopTest ==
    /\ daemon.pc = "test"
    /\ daemon' = IF Continue(daemon)
                 THEN [daemon EXCEPT !.pc = "sync", !.kind = "periodic",
                                     !.changed = FALSE, !.extra = 0, !.last = "test"]
                 ELSE [daemon EXCEPT !.pc = "exit", !.last = "test"]
    /\ UNCHANGED <<engineVars, disk, store, retry>>

\* sync_once is entered: it loads the state and asks the adapter for the
\* instances, which reads the configuration files
CycleBegin ==
    /\ daemon.pc \in {"sync", "reload"}
    /\ daemon' = [daemon EXCEPT !.pc = "cycle", !.inflight = @ + 1, !.calls = 0,
                                !.using = GetInstances(daemon.files),
                                !.extra = IF daemon.pc = "reload" THEN @ + 1 ELSE @,
                                !.last = "begun"]
    /\ UNCHANGED <<engineVars, disk, store, retry>>

\* the cycle starts an HTTP call to a proxy or to the resolver
CycleHttp ==
    /\ daemon.pc = "cycle"
    /\ daemon.calls < MaxCalls
    /\ daemon' = [daemon EXCEPT !.calls = @ + 1, !.last = "http"]
    /\ UNCHANGED <<engineVars, disk, store, retry>>

\* the cycle saves the state and returns
CycleEnd ==
    /\ daemon.pc = "cycle"
    /\ daemon' = [Unwind(daemon) EXCEPT
                     !.pc = IF daemon.kind = "periodic" THEN "check" ELSE "waitcall",
                     !.last = "saved"]
    /\ UNCHANGED <<engineVars, disk, store, retry>>

\* an exception is raised inside sync_once
CycleRaise ==
    /\ daemon.pc = "cycle"
    /\ daemon' = [Caught(Unwind(daemon)) EXCEPT !.last = "raised",
                                                !.failed = @ \cup {daemon.kind}]
    /\ UNCHANGED <<engineVars, disk, store, retry>>

\* the files and their modification times are compared with the snapshot; on
\* a difference the snapshot is replaced, the settings are loaded again and
\* the proxy adapter is created anew
CheckConfig ==
    /\ daemon.pc = "check"
    /\ LET current == Mtimes(daemon.files)
       IN  daemon' = IF FilesChanged(current, daemon.snapshot)
                     THEN [daemon EXCEPT !.pc = "reload", !.kind = "reload",
                                         !.snapshot = current, !.adapter = current,
                                         !.changed = TRUE, !.last = "check"]
                     ELSE [daemon EXCEPT !.pc = "waitcall", !.last = "check"]
    /\ UNCHANGED <<engineVars, disk, store, retry>>

\* _shutdown_event.wait is called: it returns at once when the event is set
WaitCall ==
    /\ daemon.pc = "waitcall"
    /\ daemon' = [daemon EXCEPT !.pc = IF daemon.shutdown THEN "test" ELSE "waiting",
                                !.last = "wait"]
    /\ UNCHANGED <<engineVars, disk, store, retry>>

\* the wait ends: the event was set or the poll interval has passed
WaitReturn ==
    /\ daemon.pc = "waiting"
    /\ daemon' = [daemon EXCEPT !.pc = "test", !.last = "woke"]
    /\ UNCHANGED <<engineVars, disk, store, retry>>

\* SIGTERM or SIGINT: _signal_handler sets the event
Signal ==
    /\ ~daemon.shutdown
    /\ daemon.pc \notin {"exit", "fatal"}
    /\ daemon' = [daemon EXCEPT !.shutdown = TRUE, !.sigat = daemon.pc]
    /\ UNCHANGED <<engineVars, disk, store, retry>>

\* the directory after the operator wrote a file (one that loads or one that
\* does not) or removed one
EditedFiles(files, mtime) ==
    {[f \in DOMAIN files \cup {g} |-> IF f = g THEN ConfigFile(mtime, v) ELSE files[f]] :
         g \in Range(FileNames), v \in BOOLEAN}
    \cup {[f \in DOMAIN files \ {g} |-> files[f]] : g \in DOMAIN files}

\* the operator changes the configuration directory
ConfigEdit ==
    /\ daemon.edits < MaxConfigEdits
    /\ daemon.pc \notin {"exit", "fatal"}
    /\ \E files \in EditedFiles(daemon.files, daemon.edits + 1) :
          daemon' = [daemon EXCEPT !.files = files, !.edits = @ + 1,
                                   !.good = IF GetInstances(files) # <<>>
                                            THEN GetInstances(files) ELSE @]
    /\ UNCHANGED <<engineVars, disk, store, retry>>

InitWatch == Start({Config(<<"i1", "i2">>, NoStatic, {})})

MainStep ==
    \/ LoopTest \/ CycleBegin \/ CycleHttp \/ CycleEnd \/ CycleRaise
    \/ CheckConfig \/ WaitCall \/ WaitReturn

NextWatch == MainStep \/ Signal \/ ConfigEdit

SpecWatch == InitWatch /\ [][NextWatch]_vars

\* main keeps running: the statement it is at is eventually executed, every
\* HTTP call returns or times out, and the wait ends with its timeout
SpecWatchFair == SpecWatch /\ WF_vars(MainStep)

\* C24: single writer.  In watch mode at most one sync_once cycle is in flight
\* at any moment: the periodic cycle, the cycle after a reload and the signal
\* handler never make two cycles overlap.
SingleWriter ==
    daemon.inflight <= 1

\* C24 witness: the signal arrived while the cycle after a reload was in
\* flight and making its HTTP calls
SingleWriterWitness ==
    /\ daemon.inflight = 1 /\ daemon.pc = "cycle"
    /\ daemon.kind = "reload"
    /\ daemon.shutdown
    /\ daemon.calls > 0

\* C25: graceful shutdown.  Once the shutdown event is set in watch mode, main
\* eventually leaves the loop; on the way it never blocks in another wait (a
\* wait in progress is the only one it can be in, and it ends); a cycle in
\* flight is not cut short: main leaves sync_once only by its return after the
\* save or by an exception of its own.
GracefulShutdown ==
    /\ daemon.shutdown ~> (daemon.pc = "exit")
    /\ [][(daemon.shutdown /\ daemon.pc # "waiting") => daemon'.pc # "waiting"]_vars
    /\ [][(daemon.shutdown /\ daemon.pc = "cycle" /\ daemon'.pc # "cycle")
              => daemon'.last \in {"saved", "raised"}]_vars
    /\ (daemon.shutdown /\ daemon.pc = "cycle") ~> (daemon.inflight = 0)

\* C25 witness: the signal arrived during a cycle, the cycle saved, and the
\* loop has ended
GracefulShutdownWitness ==
    /\ daemon.pc = "exit"
    /\ daemon.sigat = "cycle"
    /\ daemon.failed = {}

\* C25, the wait case is reached: the signal arrived during the wait and the
\* loop has ended
ShutdownDuringWait ==
    daemon.pc = "exit" /\ daemon.sigat = "waiting"

\* C26 as stated: cancellation discipline.  After the shutdown event is set
\* the process starts no new HTTP call to a proxy or to the resolver and no
\* further reconcile cycle, also when a configuration change is detected.
NoNewCallsAfterShutdown ==
    [][daemon.shutdown =>
           /\ daemon'.inflight <= daemon.inflight
           /\ daemon'.calls <= daemon.calls]_vars

\* C26, the part about cycles alone: after the shutdown event is set, no cycle
\* is started for a reload.
NoReloadCycleAfterShutdown ==
    [][(daemon.shutdown /\ daemon.pc = "check") => daemon'.pc # "reload"]_vars

\* the set of files, or the modification time of a file, differs between the
\* directory and the snapshot
Differs(files, lastMtimes) ==
    \/ DOMAIN files # DOMAIN lastMtimes
    \/ \E f \in DOMAIN files \cap DOMAIN lastMtimes : files[f].mtime # lastMtimes[f]

\* C27: a config change triggers an immediate cycle.  Whenever the check finds
\* the set of configuration files or one of their modification times different
\* from the snapshot, the proxy adapter is built anew for the files as they
\* are and one more cycle has been started by the time main calls the wait;
\* when nothing differs, no further cycle is started in that iteration.
ReloadTriggersCycle ==
    /\ [][(daemon.pc = "check" /\ daemon'.pc # "check") =>
              IF Differs(daemon.files, daemon.snapshot)
              THEN /\ daemon'.pc = "reload"
                   /\ daemon'.adapter = Mtimes(daemon.files)
                   /\ daemon'.snapshot = Mtimes(daemon.files)
              ELSE /\ daemon'.pc = "waitcall"
                   /\ daemon'.adapter = daemon.adapter]_vars
    /\ [](daemon.pc \in {"waitcall", "waiting"} =>
              daemon.extra = IF daemon.changed THEN 1 ELSE 0)

\* C27 witness: only the modification time of f1 changed; the adapter was
\* built anew, the cycle after the reload ran and saved, and main is about to
\* wait
ReloadTriggersCycleWitness ==
    /\ daemon.pc = "waitcall"
    /\ daemon.changed /\ daemon.extra = 1 /\ daemon.last = "saved"
    /\ DOMAIN daemon.files = {"f1"} /\ daemon.files["f1"].valid
    /\ daemon.snapshot["f1"] > 0
    /\ daemon.adapter = Mtimes(daemon.files)

\* C27, the other case is reached: nothing differed and main is about to wait
\* after the periodic cycle alone, although the directory was changed before
NoChangeNoCycle ==
    /\ daemon.pc = "waitcall" /\ ~daemon.changed /\ daemon.extra = 0
    /\ daemon.edits > 0 /\ daemon.snapshot = Mtimes(daemon.files)

\* C28 as stated: reload keeps the previous configuration on error.  When the
\* configuration is invalid or missing at a reload, the cycle that follows
\* still uses the set of proxy instances loaded before.
ReloadKeepsPrevious ==
    (daemon.pc = "cycle" /\ daemon.kind = "reload") => daemon.using = daemon.good

\* C29: the daemon survives a failing cycle.  An exception raised inside
\* sync_once, periodic or after a reload, never takes main out of the loop,
\* and after it a later cycle is started unless shutdown is signalled.
SurvivesFailingCycle ==
    /\ [](daemon.pc # "fatal")
    /\ [][daemon.pc = "cycle" => daemon'.pc \in {"cycle", "check", "waitcall"}]_vars
    /\ (daemon.last = "raised") ~> (daemon.last = "begun" \/ daemon.shutdown)

\* C29 witness: a periodic cycle and a cycle after a reload have both raised,
\* and another periodic cycle is in flight
SurvivesFailingCycleWitness ==
    /\ daemon.failed = {"periodic", "reload"}
    /\ daemon.pc = "cycle" /\ daemon.kind = "periodic"
    /\ ~daemon.shutdown

-----------------------------------------------------------------------------
(* retry_with_backoff *)

\* one attempt too many
ExhaustedLate(attempt, maxRetries) == attempt = maxRetries + 1

\* "if attempt == max_retries: break"
Exhausted(attempt, maxRetries) == attempt = maxRetries

\* retry_with_backoff(func, max_retries=m) is called with a func that behaves
\* as outcomes says, call after call
RetryBegin ==
    /\ retry.pc = "idle"
    /\ \E m \in 0..MaxRetries, o \in [1..(MaxRetries + 2) -> Outcomes] :
          retry' = [retry EXCEPT !.pc = "call", !.maxRetries = m, !.outcomes = o]
    /\ UNCHANGED <<engineVars, disk, store, daemon>>

\* "return func()" inside the try: the result is returned, a retryable
\* exception is kept and either ends the loop or leads to a sleep, any other
\* exception propagates
RetryCall ==
    /\ retry.pc = "call"
    /\ LET n == retry.calls + 1
           o == retry.outcomes[n]
       IN  retry' =
             IF o = "ok" THEN [retry EXCEPT !.calls = n, !.pc = "returned"]
             ELSE IF o = "other"
             THEN [retry EXCEPT !.calls = n, !.pc = "raised", !.exc = "other"]
             ELSE IF Exhausted(retry.attempt, retry.maxRetries)
             THEN [retry EXCEPT !.calls = n, !.lastAt = n, !.pc = "raised",
                                !.exc = "retryable"]
             ELSE [retry EXCEPT !.calls = n, !.lastAt = n, !.pc = "sleep"]
    /\ UNCHANGED <<engineVars, disk, store, daemon>>

\* time.sleep(delay), then the next attempt
RetrySleep ==
    /\ retry.pc = "sleep"
    /\ retry' = [retry EXCEPT !.sleeps = @ + 1, !.attempt = @ + 1, !.pc = "call"]
    /\ UNCHANGED <<engineVars, disk, store, daemon>>

InitRetry == Start({Config(<<"i1", "i2">>, NoStatic, {})})

NextRetry == RetryBegin \/ RetryCall \/ RetrySleep

SpecRetry == InitRetry /\ [][NextRetry]_vars

\* the first n calls of func all raise a retryable exception
AllRetryable(n) == \A k \in 1..n : retry.outcomes[k] = "retryable"

\* C30: bounded retry.  retry_with_backoff calls func at most max_retries + 1
\* times; it returns at the first call that succeeds, with no call after it;
\* when every attempt raises a retryable exception it raises the last one
\* after exactly max_retries + 1 calls and max_retries sleeps; an exception
\* that is not retryable propagates at once, after exactly one call when it is
\* the first.
BoundedRetry ==
    /\ retry.calls <= retry.maxRetries + 1
    /\ retry.pc = "returned" =>
          /\ retry.outcomes[retry.calls] = "ok"
          /\ AllRetryable(retry.calls - 1)
          /\ retry.sleeps = retry.calls - 1
    /\ (retry.pc \in {"returned", "raised"} /\ AllRetryable(retry.maxRetries + 1)) =>
          /\ retry.pc = "raised" /\ retry.exc = "retryable"
          /\ retry.lastAt = retry.maxRetries + 1
          /\ retry.calls = retry.maxRetries + 1
          /\ retry.sleeps = retry.maxRetries
    /\ (retry.pc = "raised" /\ retry.exc = "retryable") => AllRetryable(retry.maxRetries + 1)
    /\ (retry.pc = "raised" /\ retry.exc = "other") =>
          /\ retry.outcomes[retry.calls] = "other"
          /\ AllRetryable(retry.calls - 1)
    /\ (retry.pc \in {"returned", "raised"} /\ retry.outcomes[1] = "other") =>
          /\ retry.pc = "raised" /\ retry.exc = "other"
          /\ retry.calls = 1 /\ retry.sleeps = 0

\* C30 witness: with max_retries = 2 every attempt raised a retryable
\* exception; the third one was raised after three calls and two sleeps
BoundedRetryWitness ==
    /\ retry.pc = "raised" /\ retry.exc = "retryable"
    /\ retry.maxRetries = 2
    /\ retry.calls = 3 /\ retry.sleeps = 2 /\ retry.lastAt = 3

\* C30, the other cases are reached: success after two retries; an exception
\* that is not retryable at the first call
RetrySucceedsLate ==
    retry.pc = "returned" /\ retry.calls = 3 /\ retry.maxRetries = 3
RetryPropagates ==
    retry.pc = "raised" /\ retry.exc = "other" /\ retry.calls = 1 /\ retry.maxRetries = 3

-----------------------------------------------------------------------------
(* The HTTP calls of the adapters: _do_request under retry_with_backoff *)

\* what a request may meet: a response with a status, or no response at all
\* (connection refused, timeout)
Responses == {"200", "404", "refused", "timeout"}

\* _do_request: session.get / session.post raise ConnectionError or Timeout
\* when no response arrives; response.raise_for_status() raises HTTPError for
\* a 4xx or 5xx status; otherwise the request returns
DoRequest(r) ==
    IF r = "refused" THEN "ConnectionError"
    ELSE IF r = "timeout" THEN "Timeout"
    ELSE IF r = "404" THEN "HTTPError"
    ELSE "none"

\* the exception classes of the requests library that derive from
\* requests.exceptions.RequestException, the default retryable_exceptions
RequestExceptions == {"ConnectionError", "Timeout", "HTTPError"}

\* what retry_with_backoff makes of one call of _do_request
OutcomeOf(r) ==
    IF DoRequest(r) = "none" THEN "ok"
    ELSE IF DoRequest(r) \in RequestExceptions THEN "retryable"
    ELSE "other"

\* max_retries of every adapter call
AdapterRetries == 2

\* an adapter method (add_record, delete_record, get_records, get_routes,
\* test_connection) calls retry_with_backoff(_do_request, max_retries=2)
AdapterCall ==
    /\ retry.pc = "idle"
    /\ \E h \in [1..(AdapterRetries + 1) -> Responses] :
          retry' = [retry EXCEPT !.pc = "call", !.maxRetries = AdapterRetries,
                                 !.http = h,
                                 !.outcomes = [n \in DOMAIN h |-> OutcomeOf(h[n])]]
    /\ UNCHANGED <<engineVars, disk, store, daemon>>

NextHttp == AdapterCall \/ RetryCall \/ RetrySleep

SpecHttp == InitRetry /\ [][NextHttp]_vars

\* the adapter call has ended
HttpDone == retry.http # <<>> /\ retry.pc \in {"returned", "raised"}

\* C31 as stated: only transport-layer errors are retried.  An adapter call
\* whose request receives a definitive HTTP error response (a 4xx status) is
\* attempted exactly once, while a call that fails at transport level is
\* attempted up to three times.
OnlyTransportRetried ==
    HttpDone =>
        /\ retry.calls <= AdapterRetries + 1
        /\ \A n \in 1..retry.calls : retry.http[n] = "404" => retry.calls = n
        /\ retry.http[1] = "404" => retry.calls = 1

\* C31, the transport half alone: a call whose every request fails at
\* transport level is attempted three times and no more
TransportRetried ==
    (HttpDone /\ \A n \in DOMAIN retry.http : retry.http[n] \in {"refused", "timeout"})
        => retry.calls = AdapterRetries + 1 /\ retry.sleeps = AdapterRetries

\* C31, the case is reached: three requests, each answered 404
ErrorResponseRetried ==
    /\ HttpDone /\ retry.pc = "raised"
    /\ retry.calls = 3 /\ \A n \in 1..3 : retry.http[n] = "404"

-----------------------------------------------------------------------------
(* Zones *)

\* instance i reported hostname h in the last cycle, as an EXTERNAL route
ReportedExternal(i, h) ==
    i \in Polled /\ inp.polls[i].ok /\ <<h, "external">> \in inp.polls[i].routes

\* in the last cycle h was reported, and by EXTERNAL routes only
OnlyExternal(h) ==
    /\ \E i \in Polled : ReportedExternal(i, h)
    /\ \A i \in Polled : ~Reported(i, h)

\* C32 as stated: EXTERNAL routes are suppressed.  In a cycle that starts from
\* a state with no sources for h and in which every route that reports h has
\* zone EXTERNAL, the engine issues no add for h and h does not enter
\* state.domains.
ExternalSuppressed ==
    calm =>
        \A h \in Domains :
            (SourcesOf(pre.state, h) = {} /\ OnlyExternal(h)) =>
                /\ \A o \in OpsOf({"add"}) : o.d # h
                /\ SourcesOf(stateFile, h) = {}
                /\ h \notin DOMAIN pre.state.domains => h \notin DOMAIN stateFile.domains

\* C32 amended: in such a cycle the create/update step issues no add for h
\* and h does not enter state.domains (the static step still adds a static
\* rewrite configured for h); and for a hostname that matches no exclusion
\* pattern and is reported by INTERNAL and by EXTERNAL routes, an instance
\* that answered is a source of h after the cycle exactly when it reported h
\* as INTERNAL, and every add of the create/update step for h carries the
\* answer of a source of h.
ExternalSuppressedAmended ==
    calm =>
        \A h \in Domains :
            /\ (SourcesOf(pre.state, h) = {} /\ OnlyExternal(h)) =>
                  /\ \A o \in OpsOf({"add"}) : o.d = h => o.step = "static"
                  /\ SourcesOf(stateFile, h) = {}
                  /\ h \notin DOMAIN pre.state.domains => h \notin DOMAIN stateFile.domains
            /\ ( /\ ~Excluded(h)
                 /\ \E i \in Polled : ReportedExternal(i, h)
                 /\ \E i \in Polled : Reported(i, h) ) =>
                  /\ \A i \in Polled :
                        inp.polls[i].ok => (i \in SourcesOf(stateFile, h) <=> Reported(i, h))
                  /\ \A o \in OpsOf({"add"}) :
                        (o.d = h /\ o.step = "apply") =>
                            \E i \in SourcesOf(stateFile, h) : o.a = TargetIp[i]

\* C32 witness: i1 reported d1 as EXTERNAL (and d2 as INTERNAL) while i2
\* reported d1 as INTERNAL; d1 was added with the answer of i2 and i2 is the
\* only source of d1
ExternalSuppressedWitness ==
    /\ calm /\ Reliable
    /\ ReportedExternal("i1", "d1") /\ Reported("i2", "d1")
    /\ pre.state = EmptyState /\ pre.resolver = <<>>
    /\ SourcesOf(stateFile, "d1") = {"i2"}
    /\ Held(resolver, "d1") = {"a2"}
    /\ Held(resolver, "d2") = {"a1"}

\* C32, the other case is reached: d1 was reported as EXTERNAL only and the
\* cycle added d2 alone
ExternalOnlyCase ==
    /\ calm /\ Reliable /\ OnlyExternal("d1") /\ ~Excluded("d1")
    /\ pre.state = EmptyState /\ pre.resolver = <<>>
    /\ resolver = <<<<"d2", "a1">>>>
    /\ "d1" \notin DOMAIN stateFile.domains

-----------------------------------------------------------------------------
(* Minimum operations *)

\* the pair a logged operation takes out of the resolver, and the one it puts in
Removes(o, d, a) == o.op \in {"delete", "update"} /\ o.d = d /\ o.a = a
Inserts(o, d, a) ==
    \/ o.op = "add" /\ o.d = d /\ o.a = a
    \/ o.op = "update" /\ o.d = d /\ o.b = a

\* C33 as stated: minimum operations.  Within one cycle the engine never issues
\* a delete of (d, a) followed by an add of the same pair, and it issues no
\* resolver mutation for a domain whose desired answer is already in the
\* resolver as a managed record.  Stated for cycles in which no resolver
\* operation fails.
MinimumOperations ==
    (calm /\ Reliable) =>
        /\ \A d \in Domains, a \in Answers :
              \A m, n \in DOMAIN ops :
                  ~(m < n /\ Removes(ops[m], d, a) /\ Inserts(ops[n], d, a))
        /\ \A d \in Domains :
              ( /\ LastDesired(d) # ""
                /\ Has(pre.resolver, d, LastDesired(d))
                /\ IsRecordManaged(pre.state, d, LastDesired(d)) )
                  => \A o \in Range(ops) : o.d # d

\* C33, the case of managed duplicates: the resolver held two managed records
\* of d1, one of them the desired answer; the cycle deleted both and added the
\* desired one again
DuplicatesRecreated ==
    /\ calm /\ Reliable /\ edits = 0 /\ pre.config.static = NoStatic
    /\ Len(AnswersOf(pre.resolver, "d1")) = 2
    /\ \A a \in Held(pre.resolver, "d1") : IsRecordManaged(pre.state, "d1", a)
    /\ LastDesired("d1") \in Held(pre.resolver, "d1")
    /\ \E m, n \in DOMAIN ops :
          /\ m < n
          /\ Removes(ops[m], "d1", LastDesired("d1"))
          /\ Inserts(ops[n], "d1", LastDesired("d1"))

-----------------------------------------------------------------------------
(* Removed instances *)

\* the instances of the loaded state that the configuration no longer names
RemovedInstances == DOMAIN pre.state.instances \ Polled

\* the sources of d in the loaded state named removed instances only
RemovedOnly(d) ==
    /\ SourcesOf(pre.state, d) # {}
    /\ SourcesOf(pre.state, d) \cap Polled = {}

\* what the claim promises for d after the cycle
CleanedUp(d) ==
    /\ \A a \in Answers : IsRecordManaged(pre.state, d, a) => ~Has(resolver, d, a)
    /\ d \notin DOMAIN stateFile.domains
    /\ RemovedInstances \cap DOMAIN stateFile.instances = {}
    /\ \A a \in Held(pre.resolver, d) :
          ~IsRecordManaged(pre.state, d, a) => Has(resolver, d, a)

\* C34 as stated: removed instances do not leak rewrites.  After the first
\* cycle of a process lifetime, for every non-static domain whose sources in
\* the loaded state named only instances absent from the configuration, no
\* answer of managed_records[d] remains in the resolver, the domain is erased
\* from state.domains and the removed instances from state.instances, while
\* records of d that are not in managed_records are left in the resolver.
\* Stated for domains that no configured instance reports in that cycle.
RemovedInstancesDoNotLeak ==
    (calm /\ inp.first) =>
        \A d \in Domains :
            (RemovedOnly(d) /\ ~IsStatic(d) /\ \A i \in Polled : ~Reported(i, d))
                => CleanedUp(d)

\* C34, with a resolver that works during the cycle the cleanup is as claimed
RemovedInstancesCleaned ==
    (calm /\ inp.first /\ Reliable) =>
        \A d \in Domains :
            (RemovedOnly(d) /\ ~IsStatic(d) /\ \A i \in Polled : ~Reported(i, d))
                => CleanedUp(d)

\* C34, the case is reached: i1 left the configuration, its managed record of
\* d1 was deleted by the cleanup and the operator's record of d1 is still there
RemovedInstanceCase ==
    /\ calm /\ inp.first /\ Reliable
    /\ RemovedOnly("d1") /\ ~IsStatic("d1") /\ RemovedInstances = {"i1"}
    /\ Held(pre.resolver, "d1") = {"a1", "a2"}
    /\ IsRecordManaged(pre.state, "d1", "a1") /\ ~IsRecordManaged(pre.state, "d1", "a2")
    /\ Held(resolver, "d1") = {"a2"}
    /\ \E o \in Deletes : o.step = "cleanup" /\ o.ok

\* C34, the leak is reached: the delete of the cleanup failed, and the record
\* is in the resolver, known to neither state.domains nor managed_records
RemovedInstanceLeak ==
    /\ calm /\ inp.first
    /\ RemovedOnly("d1") /\ ~IsStatic("d1")
    /\ IsRecordManaged(pre.state, "d1", "a1") /\ Has(resolver, "d1", "a1")
    /\ "d1" \notin DOMAIN stateFile.domains
    /\ "d1" \notin DOMAIN stateFile.managed

-----------------------------------------------------------------------------
(* A process whose configuration files change while it runs: get_instances   *)
(* reads them at the start of every cycle, _startup_cleanup_done stays set   *)

ReloadInstances == {<<"i1", "i2">>, <<"i2">>, <<"i1">>}
ReloadConfigs ==
    { Config(<<"i1", "i2">>, NoStatic, {}),
      Config(<<"i1", "i2">>, StaticD1("a1"), {}) }

InitReload == Start(ReloadConfigs)

SyncOnceReload ==
    /\ clock < MaxReloadCycles
    /\ \E polls \in LongPollsFor(config), down \in DownChoices : Cycle(polls, down)

\* the sources of the configuration files change between two cycles; the
\* static rewrites and exclusion patterns of the process stay as they are
Reconfigure ==
    /\ calm
    /\ clock < MaxReloadCycles
    /\ \E is \in ReloadInstances :
          /\ is # config.instances
          /\ config' = [config EXCEPT !.instances = is]
    /\ calm' = FALSE
    /\ UNCHANGED <<resolver, stateFile, startupCleanupDone, clock, restarts, edits,
                   outages, pre, inp, ops, prev, disk, store, daemon, retry>>

NextReload == SyncOnceReload \/ Reconfigure

SpecReload == InitReload /\ [][NextReload]_vars

\* the sources of d named absent instances only when the last cycle began, and
\* no configured instance reported d in it
AbandonedIn(d) == RemovedOnly(d) /\ \A i \in Polled : ~Reported(i, d)

\* C35 as stated: instance cleanup runs on the first cycle only.  In every
\* cycle after the first of a process lifetime, an instance that is absent
\* from the configuration keeps all its sources entries in the state, and no
\* record of a domain sourced only by such an instance is deleted.
CleanupFirstCycleOnly ==
    (calm /\ ~inp.first) =>
        /\ \A d \in Domains : \A i \in SourcesOf(pre.state, d) \ Polled :
              i \in SourcesOf(stateFile, d)
        /\ \A o \in Deletes : ~AbandonedIn(o.d)

\* C35, what holds: the source entries are kept, the only deletes of such a
\* domain are those of the static step for a configured static rewrite, no
\* cycle after the first issues an operation of the cleanup step, and every
\* record of such a domain that is not a static rewrite is still in the
\* resolver after the cycle.
CleanupFirstCycleOnlyNonStatic ==
    (calm /\ ~inp.first) =>
        /\ \A d \in Domains : \A i \in SourcesOf(pre.state, d) \ Polled :
              i \in SourcesOf(stateFile, d)
        /\ \A o \in Deletes : AbandonedIn(o.d) => (IsStatic(o.d) /\ o.step = "static")
        /\ \A o \in Range(ops) : o.step # "cleanup"
        /\ \A d \in Domains : (AbandonedIn(d) /\ ~IsStatic(d)) =>
              \A a \in Held(pre.resolver, d) : Has(resolver, d, a)

\* C35, the case is reached: i2, the only source of d1, left the configuration while the
\* process ran; the cycle after that, with a resolver that works, kept the
\* source entry and the managed record (d1, a2)
AbandonedKept ==
    /\ calm /\ ~inp.first /\ Reliable
    /\ pre.config.instances = <<"i1">> /\ ~IsStatic("d1")
    /\ inp.polls["i1"].ok
    /\ SourcesOf(pre.state, "d1") = {"i2"}
    /\ IsRecordManaged(pre.state, "d1", "a2") /\ Has(pre.resolver, "d1", "a2")
    /\ SourcesOf(stateFile, "d1") = {"i2"}
    /\ Has(resolver, "d1", "a2") /\ IsRecordManaged(stateFile, "d1", "a2")
    /\ ops = <<>>

-----------------------------------------------------------------------------
(* Operator-owned collision *)

\* managed_answers and unmanaged_answers of d in the create/update step of the
\* last cycle
LastManaged(d) ==
    SelectSeq(LastExisting(d), LAMBDA a : IsRecordManaged(LastBefore.c.st, d, a))
LastUnmanaged(d) ==
    SelectSeq(LastExisting(d), LAMBDA a : ~IsRecordManaged(LastBefore.c.st, d, a))

\* d is desired, the resolver listed an unmanaged record of d, and no
\* unmanaged record of d is the desired answer
Collision(d) ==
    /\ LastDesired(d) # ""
    /\ LastUnmanaged(d) # <<>>
    /\ LastDesired(d) \notin Range(LastUnmanaged(d))

-----------------------------------------------------------------------------
(* Static rewrites and orphan deletion *)

\* d is a configured static rewrite that had proxy sources when the last cycle
\* began and has none in the state the cycle saved: the last source was
\* withdrawn or belonged to an instance that left the configuration
StaticOrphaned(d) ==
    /\ IsStatic(d)
    /\ SourcesOf(pre.state, d) # {}
    /\ SourcesOf(stateFile, d) = {}

\* C37 as stated: static rewrites are exempt from orphan deletion.  For a
\* configured static rewrite d, a cycle in which the last proxy source of d is
\* withdrawn or belongs to a removed instance issues no delete for any record
\* of d, and the resolver still maps d to its static answer after the cycle.
StaticExemptFromOrphan ==
    calm =>
        \A d \in Domains : StaticOrphaned(d) =>
            /\ \A o \in Deletes : o.d # d
            /\ Has(pre.resolver, d, pre.config.static[d])
                  => Has(resolver, d, pre.config.static[d])

\* C37 amended: in such a cycle the cleanup, exclusion, create/update and
\* orphan steps issue no operation for d; the only operation for d is the
\* static step's own (adding the static answer, or rotating a managed record
\* to it), and a static answer the resolver held before the cycle is still
\* there after it.
StaticExemptFromOrphanAmended ==
    calm =>
        \A d \in Domains : StaticOrphaned(d) =>
            /\ \A o \in Range(ops) : o.d = d =>
                  /\ o.step = "static"
                  /\ o.b = pre.config.static[d]
            /\ Has(pre.resolver, d, pre.config.static[d])
                  => Has(resolver, d, pre.config.static[d])
            /\ d \in DOMAIN stateFile.domains

\* C37 witness: i1 stood for the static rewrite d1 = a1 and withdrew it; the
\* cycle issued nothing and (d1, a1), a managed record, is still there
StaticExemptFromOrphanWitness ==
    /\ calm /\ Reliable
    /\ StaticOrphaned("d1") /\ pre.config.static["d1"] = "a1"
    /\ SourcesOf(pre.state, "d1") = {"i1"} /\ inp.polls["i1"].ok
    /\ IsRecordManaged(pre.state, "d1", "a1")
    /\ ops = <<>>
    /\ Held(resolver, "d1") = {"a1"}

\* C37, the other case is reached: the source of d1 belonged to an instance
\* that left the configuration, and the cleanup of the first cycle skipped d1
StaticRemovedInstanceCase ==
    /\ calm /\ Reliable /\ inp.first
    /\ StaticOrphaned("d1") /\ RemovedOnly("d1")
    /\ Has(pre.resolver, "d1", pre.config.static["d1"])
    /\ \A o \in Deletes : o.d # "d1"
    /\ Has(resolver, "d1", pre.config.static["d1"])

-----------------------------------------------------------------------------
(* A state file that is not a state document: load and the setdefaults of    *)
(* sync_once                                                                  *)

\* what the state path may hold instead of a saved document: nothing, a file
\* that cannot be read, a text that is not JSON, a JSON text that is not an
\* object (a list), an object without the keys of a state document
DamageKinds == {"absent", "unreadable", "unparsable", "array", "object"}
Damaged(kind) == [kind |-> kind]
IsDamaged(f) == "kind" \in DOMAIN f

\* the skeleton load returns; a JSON value that is not a dictionary
Skeleton == [instances |-> <<>>, domains |-> <<>>]
NotADict == [notdict |-> TRUE]

\* StateStore.load: the skeleton when the path does not exist or read_text or
\* json.loads raises; otherwise whatever json.loads returns
LoadState(f) ==
    IF ~IsDamaged(f) THEN f
    ELSE IF f.kind \in {"absent", "unreadable", "unparsable"} THEN Skeleton
    ELSE IF f.kind = "object" THEN <<>>
    ELSE NotADict

\* state.setdefault(...) of sync_once; it raises AttributeError on a value
\* that is not a dictionary
IsDict(x) == "notdict" \notin DOMAIN x
SetDefaults(x) ==
    [instances |-> IF "instances" \in DOMAIN x THEN x.instances ELSE <<>>,
     domains |-> IF "domains" \in DOMAIN x THEN x.domains ELSE <<>>,
     managed |-> IF "managed" \in DOMAIN x THEN x.managed ELSE <<>>]

\* one call of sync_once on whatever the state path holds: load, setdefaults,
\* reconcile, save; an exception of the setdefaults leaves sync_once before
\* anything else has happened
CycleLoading(polls, down) ==
    LET first == ~startupCleanupDone
        loaded == LoadState(stateFile)
        c == RunCycle(SetDefaults(loaded), resolver, config, first, polls, down, clock + 1)
    IN  /\ down # {} => outages < MaxOutages
        /\ outages' = IF down # {} THEN outages + 1 ELSE outages
        /\ clock' = clock + 1
        /\ inp' = [polls |-> polls, down |-> down, first |-> first]
        /\ pre' = [resolver |-> resolver, state |-> stateFile, config |-> config]
        /\ prev' = [down |-> inp.down, failed |-> Failed(ops),
                    same |-> calm /\ polls = inp.polls, ensured |-> prev.ensured]
        /\ calm' = TRUE
        /\ IF IsDict(loaded)
           THEN /\ resolver' = c.res
                /\ stateFile' = c.st
                /\ ops' = c.ops
                /\ startupCleanupDone' = TRUE
                /\ store' = [store EXCEPT !.last = "saved"]
           ELSE /\ ops' = <<>>
                /\ store' = [store EXCEPT !.last = "raised"]
                /\ UNCHANGED <<resolver, stateFile, startupCleanupDone>>
        /\ UNCHANGED <<config, restarts, edits, disk, daemon, retry>>

SyncOnceLoading ==
    /\ clock < MaxDamagedCycles
    /\ \E polls \in LongPollsFor(config), down \in DownChoices : CycleLoading(polls, down)

\* between two cycles the state file is lost or overwritten
Damage ==
    /\ clock < MaxDamagedCycles
    /\ ~IsDamaged(stateFile)
    /\ \E k \in DamageKinds : stateFile' = Damaged(k)
    /\ calm' = FALSE
    /\ store' = [store EXCEPT !.last = "damaged"]
    /\ UNCHANGED <<resolver, config, startupCleanupDone, clock, restarts, edits,
                   outages, pre, inp, ops, prev, disk, daemon, retry>>

InitDamaged == Start({Config(<<"i1", "i2">>, NoStatic, {})})

NextDamaged == SyncOnceLoading \/ Damage

SpecDamaged == InitDamaged /\ [][NextDamaged]_vars

\* the last call of sync_once ended as a cycle does that starts from an empty
\* state with the same resolver, configuration and inputs
AsFromEmpty ==
    LET c == RunCycle(EmptyState, pre.resolver, pre.config, inp.first, inp.polls,
                      inp.down, clock)
    IN  /\ store.last = "saved"
        /\ stateFile = c.st /\ resolver = c.res /\ ops = c.ops

\* C38 as stated: state corruption is a fresh start.  When the state file is
\* absent, unreadable or does not hold a usable state document, load does not
\* raise and returns the skeleton, and the cycle runs to completion and saves
\* a valid state exactly as it would from an empty state.
CorruptionIsFreshStart ==
    (calm /\ IsDamaged(pre.state)) =>
        /\ LoadState(pre.state) = Skeleton
        /\ AsFromEmpty

\* C38, what holds: for a file that is absent, unreadable or not JSON, load
\* returns the skeleton and the cycle is the one of a fresh start; for a JSON
\* object without the keys of a state document the cycle is that one too
UnparsableIsFreshStart ==
    (calm /\ IsDamaged(pre.state)) =>
        /\ pre.state.kind \in {"absent", "unreadable", "unparsable"} =>
              LoadState(pre.state) = Skeleton /\ AsFromEmpty
        /\ pre.state.kind = "object" => AsFromEmpty

\* C38, the case is reached: the state file was replaced by a text that is not
\* JSON while the resolver held a managed record; the cycle added nothing new
\* beyond what a fresh start adds and saved a document
UnparsableCase ==
    /\ calm /\ IsDamaged(pre.state) /\ pre.state.kind = "unparsable"
    /\ Has(pre.resolver, "d1", "a2")
    /\ store.last = "saved" /\ ~IsDamaged(stateFile)
    /\ stateFile.managed = [d \in {"d1"} |-> <<"a2">>]

\* C38, the failure is reached: the state file holds a JSON list; sync_once
\* raised, and the file is as it was
NotADictCase ==
    /\ calm /\ IsDamaged(pre.state) /\ pre.state.kind = "array"
    /\ store.last = "raised"
    /\ stateFile = pre.state
    /\ clock = MaxDamagedCycles

-----------------------------------------------------------------------------
(* A correct record *)

-----------------------------------------------------------------------------
(* A cycle that ends with an exception: save is the last statement of        *)
(* sync_once                                                                  *)

\* the steps of sync_once after which an exception may leave it; "none": the
\* cycle reaches save
RaisePoints == {"cleanup", "static", "exclusion", "apply"}

\* the frame of a cycle when the step named has been carried out
FrameAt(point, st0, res0, cfg, first, polls, down, now) ==
    LET c0 == [st |-> st0, res |-> res0, ops |-> <<>>, rbd |-> <<>>]
        c1 == IF first THEN CleanupRemovedInstances(c0, cfg, down) ELSE c0
        b == BeforeApply(st0, res0, cfg, first, polls, down, now)
    IN  IF point = "cleanup" THEN c1
        ELSE IF point = "static" THEN SyncStaticRewrites(c1, cfg, down)
        ELSE IF point = "exclusion" THEN b.c
        ELSE IF point = "apply"
        THEN ApplyLoop(b.c, SortedSeq(DOMAIN b.desired), b.desired, down)
        ELSE RunCycle(st0, res0, cfg, first, polls, down, now)

\* as Persisted, but the document is saved however the cycle ends
PersistedAlways(file, c, point) == c.st

\* the state file after the call: self.state_store.save(state) is reached only
\* when nothing has raised before
Persisted(file, c, point) == IF point = "none" THEN c.st ELSE file

\* one call of sync_once that runs to its end or raises after a step
CycleRaising(polls, down, point) ==
    LET first == ~startupCleanupDone
        c == FrameAt(point, stateFile, resolver, config, first, polls, down, clock + 1)
    IN  /\ down # {} => outages < MaxOutages
        /\ outages' = IF down # {} THEN outages + 1 ELSE outages
        /\ resolver' = c.res
        /\ stateFile' = Persisted(stateFile, c, point)
        /\ ops' = c.ops
        /\ inp' = [polls |-> polls, down |-> down, first |-> first]
        /\ prev' = [down |-> inp.down, failed |-> Failed(ops),
                    same |-> calm /\ polls = inp.polls, ensured |-> prev.ensured]
        /\ pre' = [resolver |-> resolver, state |-> stateFile, config |-> config]
        /\ calm' = TRUE
        /\ startupCleanupDone' = TRUE
        /\ clock' = clock + 1
        /\ store' = [store EXCEPT !.last = IF point = "none" THEN "saved" ELSE "raised"]
        /\ UNCHANGED <<config, restarts, edits, disk, daemon, retry>>

SyncOnceRaising ==
    /\ clock < MaxCycles
    /\ \E polls \in LongPollsFor(config), down \in DownChoices,
          point \in RaisePoints \cup {"none"} : CycleRaising(polls, down, point)

InitRaising ==
    Start({Config(<<"i1", "i2">>, NoStatic, {}), Config(<<"i1", "i2">>, StaticD1("a3"), {})})

NextRaising == SyncOnceRaising

SpecRaising == InitRaising /\ [][NextRaising]_vars

\* C40: a failed cycle leaves the persisted state untouched.  When a call of
\* sync_once ends with an exception before its last statement, the state file
\* is what it was before the call, whatever resolver operations the cycle had
\* issued by then.
FailedCycleKeepsState ==
    (calm /\ store.last = "raised") => stateFile = pre.state

\* C40 witness: the second cycle raised after its create/update step had
\* replaced the record of d1; the resolver holds the new record and the state
\* file still names the old one
FailedCycleKeepsStateWitness ==
    /\ calm /\ store.last = "raised" /\ Reliable
    /\ pre.state # EmptyState
    /\ stateFile = pre.state
    /\ \E o \in OpsOf({"add"}) : o.step = "apply" /\ o.ok /\ o.d = "d1" /\ o.a = "a1"
    /\ Held(resolver, "d1") = {"a1"}
    /\ IsRecordManaged(stateFile, "d1", "a2") /\ ~IsRecordManaged(stateFile, "d1", "a1")

====
